---- MODULE Spec2Model ----
(***************************************************************************)
(* Model of the openclaw-honcho memory plugin (src/index.ts): the          *)
(* agent_end handler that incrementally persists a conversation's turn     *)
(* log to a remote Honcho session, with the watermark lastSavedIndex kept  *)
(* in the session's metadata.                                              *)
(*                                                                         *)
(* Text is a sequence of tokens: one-character strings for ordinary        *)
(* characters and whitespace, and one token for each piece of markup the   *)
(* regular expressions of cleanMessageContent recognise as a unit.         *)
(*                                                                         *)
(* The remote store is outside the repository.  A remote call is one       *)
(* atomic step that either takes effect and returns, or throws and has no  *)
(* effect on the store.                                                    *)
(***************************************************************************)
EXTENDS Integers, Sequences, FiniteSets, TLC

\* ------------------------------------------------------------------------
\* Bounds
\* ------------------------------------------------------------------------
MaxLog == 3              \* longest turn log of a thread
MaxWindowFailures == 1   \* watermark writes that may throw after a successful addMessages
MaxLogIsolation == 1     \* longest turn log where two threads take turns
MaxLogRace == 1          \* longest turn log where sync runs of a thread overlap
MaxEvents == 2           \* events delivered where threads take turns or runs overlap
MaxBody == 2             \* longest body of an injected memory block
MaxKey == 2              \* longest sessionKey and messageProvider of a hook context
MaxInstalls == 1         \* runs of the install script on one workspace
MaxOver == 2             \* how far the tried syncFrequency values go past 0, 1 and 1440
MaxRef == 4              \* longest configured apiKey string
MaxHookCalls == 2        \* calls of before_agent_start and of the honcho_session tool
MaxStatic == 2           \* longest human-written text before a managed section
MaxMerges == 2           \* runs of the file merger on one file
MaxTurns == 2            \* longest sequence of turns extractMessages is given on its own
MaxReinstalls == 2        \* runs of the install script where it is run again
MaxLogLive == 1          \* longest turn log where events keep being delivered

\* ------------------------------------------------------------------------
\* Constants of the program
\* ------------------------------------------------------------------------
OWNER_ID == "owner"
MOLTBOT_ID == "moltbot"

Undefined == -1      \* `undefined` for meta.lastSavedIndex; null for a Peer handle is NoPeer
NoPeer == "null"

\* ------------------------------------------------------------------------
\* Text
\* ------------------------------------------------------------------------
OPEN == "<honcho-memory hidden=true>"
CLOSE == "</honcho-memory>"
CMT == "<!-- honcho -->"
HDR == "[Telegram Ann id:1 ts]"
MID == "[message_id: 7]"
SP == " "
NL == "\n"

IsWs(c) == c \in {SP, NL}

RECURSIVE SkipWs(_)
SkipWs(s) == IF s # <<>> /\ IsWs(Head(s)) THEN SkipWs(Tail(s)) ELSE s

RECURSIVE DropTrailingWs(_)
DropTrailingWs(s) ==
    IF s # <<>> /\ IsWs(s[Len(s)]) THEN DropTrailingWs(SubSeq(s, 1, Len(s) - 1)) ELSE s

\* String.prototype.trim
Trim(s) == DropTrailingWs(SkipWs(s))

\* /<honcho-memory[^>]*>[\s\S]*?<\/honcho-memory>\s*/gi  ->  ""
RECURSIVE StripMemoryBlocks(_)
StripMemoryBlocks(s) ==
    IF s = <<>> THEN <<>>
    ELSE IF Head(s) = OPEN /\ \E j \in 2..Len(s) : s[j] = CLOSE
         THEN LET j == CHOOSE j \in 2..Len(s) :
                          s[j] = CLOSE /\ \A i \in 2..(j - 1) : s[i] # CLOSE
              IN  StripMemoryBlocks(SkipWs(SubSeq(s, j + 1, Len(s))))
         ELSE <<Head(s)>> \o StripMemoryBlocks(Tail(s))

\* /<!--[^>]*honcho[^>]*-->\s*/gi  ->  ""
RECURSIVE StripComments(_)
StripComments(s) ==
    IF s = <<>> THEN <<>>
    ELSE IF Head(s) = CMT THEN StripComments(SkipWs(Tail(s)))
         ELSE <<Head(s)>> \o StripComments(Tail(s))

\* /^\[\w+\s+.+?\s+id:\d+\s+[^\]]+\]\s*/  ->  ""
StripHeader(s) == IF s # <<>> /\ Head(s) = HDR THEN SkipWs(Tail(s)) ELSE s

\* /\s*\[message_id:\s*[^\]]+\]\s*$/  ->  ""
StripMessageId(s) ==
    LET t == DropTrailingWs(s)
    IN  IF t # <<>> /\ t[Len(t)] = MID
        THEN DropTrailingWs(SubSeq(t, 1, Len(t) - 1))
        ELSE s

cleanMessageContent(content) ==
    Trim(StripMessageId(StripHeader(StripComments(StripMemoryBlocks(content)))))

\* ------------------------------------------------------------------------
\* Turns
\* ------------------------------------------------------------------------
StringContent(s) == [kind |-> "string", text |-> s, blocks |-> <<>>]
BlockContent(bs) == [kind |-> "blocks", text |-> <<>>, blocks |-> bs]
TextBlock(s) == [type |-> "text", isString |-> TRUE, text |-> s]
ToolUseBlock == [type |-> "tool_use", isString |-> FALSE, text |-> <<>>]

\* blocks.filter(type === "text").map(text).filter(string).join("\n")
RECURSIVE JoinTextBlocks(_)
JoinTextBlocks(bs) ==
    IF bs = <<>> THEN <<>>
    ELSE LET b == Head(bs)
             rest == JoinTextBlocks(Tail(bs))
             keep == b.type = "text" /\ b.isString
             more == \E i \in 2..Len(bs) : bs[i].type = "text" /\ bs[i].isString
         IN  IF ~keep THEN rest
             ELSE IF more THEN b.text \o <<NL>> \o rest
             ELSE b.text

Flatten(content) ==
    IF content.kind = "string" THEN content.text
    ELSE IF content.kind = "blocks" THEN JoinTextBlocks(content.blocks)
    ELSE <<>>

\* variant: assistant turns are cleaned as well
TurnTextCleanAll(m) ==
    IF m.role \notin {"user", "assistant"} THEN <<>>
    ELSE Trim(cleanMessageContent(Flatten(m.content)))

\* The text extractMessages stores for one turn (<<>> when it stores nothing)
TurnText(m) ==
    IF m.role \notin {"user", "assistant"} THEN <<>>
    ELSE LET content == Flatten(m.content)
         IN  Trim(IF m.role = "user" THEN cleanMessageContent(content) ELSE content)

RECURSIVE extractMessages(_, _, _)
extractMessages(rawMessages, owner, moltbot) ==
    IF rawMessages = <<>> THEN <<>>
    ELSE LET m == Head(rawMessages)
             content == TurnText(m)
             rest == extractMessages(Tail(rawMessages), owner, moltbot)
         IN  IF content # <<>>
             THEN <<[peerId |-> IF m.role = "user" THEN owner ELSE moltbot,
                     content |-> content]>> \o rest
             ELSE rest

\* The turns a host appends to a log
UserTurn ==
    [role |-> "user",
     content |-> StringContent(<<HDR, SP, OPEN, "k", CLOSE, NL, CMT, NL, "h", "i", SP, MID>>)]
AssistantTurn ==
    [role |-> "assistant", content |-> BlockContent(<<ToolUseBlock, TextBlock(<<"o", "k">>)>>)]
ToolOnlyTurn ==
    [role |-> "assistant", content |-> BlockContent(<<ToolUseBlock>>)]

TurnPool == {UserTurn, AssistantTurn, ToolOnlyTurn}

SeqsUpTo(S, n) == UNION {[1..m -> S] : m \in 0..n}

\* prependContext of before_agent_start around the text `formatted`
InjectedBlock(formatted) == <<OPEN, NL>> \o formatted \o <<NL, CLOSE, NL, CMT>>

\* what a memory body is made of: text of the store (never the user's "h",
\* "i"), line breaks, and the closing tag when the store's text quotes it
BodyTokens == {"k", NL, CLOSE}

Bodies == SeqsUpTo(BodyTokens, MaxBody) \ {<<>>}

\* the memory block's parts that are no white space
BlockParts == {OPEN, CLOSE, CMT, "k"}

\* turns in which a memory block stands at the start, after the platform
\* header or inside the text
InjectedTurns ==
    {[role |-> role, content |-> StringContent(pre \o InjectedBlock(body) \o post)] :
        role \in {"user", "assistant"},
        pre \in {<<>>, <<HDR, SP>>, <<"h", SP>>},
        body \in Bodies,
        post \in {<<>>, <<NL, "i">>, <<"i", SP, MID>>}}

\* ------------------------------------------------------------------------
\* Threads and session keys
\* ------------------------------------------------------------------------
Threads == {"t1", "t2"}

\* the threads whose events the serial specifications deliver
SerialThreads == {"t1"}

\* a field of ctx that is undefined (a string is a sequence of characters)
Absent == <<"undefined">>

\* ctx itself is undefined
NoCtx == [defined |-> FALSE, sessionKey |-> Absent, messageProvider |-> Absent]

Ctx(t) ==
    IF t = "t1"
    THEN [defined |-> TRUE, sessionKey |-> <<"a", ":", "m">>, messageProvider |-> <<"t", "g">>]
    ELSE [defined |-> TRUE, sessionKey |-> <<"a", ":", "g">>, messageProvider |-> <<"t", "g">>]

\* the characters of [a-zA-Z] and of [0-9] that occur in this module
Letters == {"a", "m", "t", "g", "Z", "d", "e", "f", "u", "l", "n", "k", "o", "w"}
Digits == {"7"}

\* variant: the underscore is kept
AlnumHyphenUnderscore == Letters \cup Digits \cup {"-", "_"}

\* variant: the class leaves the digits out
AlphaHyphen == Letters \cup {"-"}

\* the complement of [^a-zA-Z0-9-]
AlnumHyphen == Letters \cup Digits \cup {"-"}

buildSessionKey(ctx) ==
    LET baseKey == IF ctx.defined /\ ctx.sessionKey # Absent
                   THEN ctx.sessionKey
                   ELSE <<"d", "e", "f", "a", "u", "l", "t">>
        provider == IF ctx.defined /\ ctx.messageProvider # Absent
                    THEN ctx.messageProvider
                    ELSE <<"u", "n", "k", "n", "o", "w", "n">>
        combined == baseKey \o <<"-">> \o provider
    IN  [i \in 1..Len(combined) |->
            IF combined[i] \in AlnumHyphen THEN combined[i] ELSE "-"]

\* the characters a hook context's fields are made of
KeyChars == {"a", "Z", "7", "-", ":", "_"}

KeyStrings == SeqsUpTo(KeyChars, MaxKey)

\* the contexts a hook may be called with
Contexts ==
    {NoCtx} \cup
    {[defined |-> TRUE, sessionKey |-> k, messageProvider |-> p] :
        k \in KeyStrings \cup {Absent}, p \in KeyStrings \cup {Absent}}

KeyOf(t) == buildSessionKey(Ctx(t))
SessionKeys == {KeyOf(t) : t \in Threads}


\* ------------------------------------------------------------------------
\* State
\* ------------------------------------------------------------------------
RunIds == {1, 2}

\* the one invocation in flight where events are handled one at a time
SerialRuns == {1}

VARIABLES
    log,              \* log[t]: the append-only turn log of thread t (the host's)
    initialized,      \* plugin closure: let initialized
    ownerPeer,        \* plugin closure: let ownerPeer
    moltbotPeer,      \* plugin closure: let moltbotPeer
    workspace,        \* store: the workspace exists
    remotePeers,      \* store: ids of the peers that exist
    sessionExists,    \* store: sessionExists[k]
    sessionMeta,      \* store: metadata.lastSavedIndex of session k, or Undefined
    sessionPeers,     \* store: peers registered on session k
    sessionMessages,  \* store: message history of session k
    runs,             \* runs[r]: one invocation of the agent_end handler
    commits,          \* history: commits[t][i] = addMessages submissions that held turn i of t
    bootIndex,        \* history: first watermark persisted for t, or Undefined
    firstEventLen,    \* history: length of t's log at its first agent_end event, or Undefined
                      \*          (recorded by SpecFirstEvent only)
    delivered,        \* history: events delivered (counted by SpecIsolation and SpecRace)
    lastRun,          \* history: summary of the last finished sync run of t
    windowFailures,   \* history: watermark writes that have thrown after a successful addMessages
    keyCtx,           \* buildSessionKey: the hook context it is called with
    keyResult,        \* buildSessionKey: what it returned, or NotCalled
    turnIn,           \* extractMessages: the raw message it is called with
    turnOut,          \* extractMessages: [called, entries], the MessageInputs it returned
    script,           \* install: which version of the install script runs
    apiKey,           \* install: process.env.HONCHO_API_KEY is set
    fs,               \* install: fs[item], what is at a legacy path of the workspace
    archiveDir,       \* install: <workspace>/archive exists
    archive,          \* install: the entries of <workspace>/archive
    facts,            \* store: facts[item], accepted conclusions made from item
    install,          \* install: the run of main()
    installs,         \* history: runs of main() started
    pluginConfig,     \* register: api.pluginConfig
    env,              \* register: process.env
    reg,              \* register: what register(api) has done
    hook,             \* one call of before_agent_start or of a tool's execute
    hookCalls,        \* history: such calls started
    mergeIn,          \* file merger: the file it starts from, content block, timestamp
    merged            \* file merger: the file as written, and how often

vars == <<log, initialized, ownerPeer, moltbotPeer, workspace, remotePeers,
          sessionExists, sessionMeta, sessionPeers, sessionMessages, runs,
          commits, bootIndex, firstEventLen, delivered, lastRun, windowFailures,
          keyCtx, keyResult, turnIn, turnOut,
          script, apiKey, fs, archiveDir, archive, facts, install, installs,
          pluginConfig, env, reg, hook, hookCalls, mergeIn, merged>>

closureVars == <<initialized, ownerPeer, moltbotPeer>>
storeVars == <<workspace, remotePeers, sessionExists, sessionMeta, sessionPeers, sessionMessages>>
sessionVars == <<sessionExists, sessionMeta, sessionPeers, sessionMessages>>
eventVars == <<firstEventLen, delivered>>
histVars == <<commits, bootIndex, eventVars, lastRun, windowFailures>>

\* the variables of the other state machines of this module
keyVars == <<keyCtx, keyResult>>
turnVars == <<turnIn, turnOut>>
installVars == <<script, apiKey, fs, archiveDir, archive, facts, install, installs>>
configVars == <<pluginConfig, env, reg>>
hookVars == <<hook, hookCalls>>
mergeVars == <<mergeIn, merged>>
pluginVars == <<configVars, hookVars, mergeVars>>
elsewhere == <<keyVars, turnVars, installVars, pluginVars>>

NotCalled == <<"not called">>

NoRun == [outcome |-> "none", len |-> 0, from |-> Undefined, window |-> FALSE]

IdleRun ==
    [pc |-> "idle", outcome |-> "none", thread |-> CHOOSE t \in Threads : TRUE,
     success |-> FALSE, hasMessages |-> FALSE, messages |-> <<>>,
     meta |-> Undefined, lastSavedIndex |-> Undefined, extracted |-> <<>>,
     calls |-> <<>>, sent |-> <<>>, w0 |-> Undefined]

\* nothing else of the module has run
InitKeyIdle ==
    /\ keyCtx = Ctx("t1")
    /\ keyResult = NotCalled

InitTurnIdle ==
    /\ turnIn = UserTurn
    /\ turnOut = [called |-> FALSE, entries |-> <<>>]

\* what the install script finds at a legacy path: nothing, a file with text
\* (its own, or the plugin's template once updateWorkspaceDocs has written
\* it), a file of white space, a file that cannot be read, something that is
\* no regular file. A legacy directory holds one entry, "n.md", and fs gives
\* that entry's state ("absent": there is no such directory).
FileStates == {"absent", "legacy", "template", "blank", "unreadable", "special"}

\* const filesToMigrate / dirsToMigrate (the names this model follows)
filesToMigrate == {"USER.md", "SOUL.md", "TOOLS.md"}
dirsToMigrate == {"memory"}
Items == filesToMigrate \cup dirsToMigrate

\* const docsToSync (targets)
docsToSync == {"SOUL.md"}

\* const ownerFiles / openclawFiles
ownerFiles == {"USER.md", "IDENTITY.md", "MEMORY.md"}
openclawFiles == {"SOUL.md", "AGENTS.md", "TOOLS.md", "BOOTSTRAP.md", "HEARTBEAT.md"}

\* the basename of the path a fact is made from ("n.md" inside a directory)
BaseName(item) == IF item \in dirsToMigrate THEN "n.md" ELSE item

\* variant: only the listed owner files are about the owner
isAboutOwnerListed(item) == BaseName(item) \in ownerFiles

isAboutOwner(item) ==
    IF BaseName(item) \in ownerFiles THEN TRUE
    ELSE IF BaseName(item) \in openclawFiles THEN FALSE
    ELSE TRUE

\* the install scripts: "archive" gates on migration and renames into
\* archive/, "remove" (install.js) gates and deletes, "always" deletes anyway
Scripts == {"archive", "remove", "always"}

\* filesToArchive, dirsToArchive / filesToDelete, dirsToDelete, in loop order
CleanupList(sc) ==
    IF sc = "archive" THEN <<"USER.md", "SOUL.md", "memory">>
    ELSE <<"USER.md", "memory">>

\* the store identities a run of an install script has addressed: none yet
NoStore == [workspaceId |-> <<"none">>, agent |-> "none", owner |-> "none"]

IdleInstall ==
    [pc |-> "idle", i |-> 0, outcome |-> "none", migration |-> "pending",
     store |-> NoStore,
     collected |-> FALSE, visited |-> {}, failed |-> {}, reported |-> {},
     conclusions |-> {}, before |-> [it \in Items |-> "absent"],
     found |-> [it \in Items |-> "absent"],
     archiveBefore |-> {}, archiveDirBefore |-> FALSE]

InitInstallIdle ==
    /\ script = "archive"
    /\ apiKey = FALSE
    /\ fs = [it \in Items |-> "absent"]
    /\ archiveDir = FALSE
    /\ archive = {}
    /\ facts = [it \in Items |-> 0]
    /\ install = IdleInstall
    /\ installs = 0

\* a JavaScript value of a configuration option. A finite number is kept in
\* halves: h stands for h / 2. s is the text of a string
JsValue(type, is, h, s) == [type |-> type, is |-> is, h |-> h, s |-> s]
Missing == JsValue("undefined", "", 0, <<>>)
Null == JsValue("object", "", 0, <<>>)
Bool(b) == JsValue("boolean", IF b THEN "true" ELSE "false", 0, <<>>)
Str(s) == JsValue("string", "", 0, s)
Finite(h) == JsValue("number", "finite", h, <<>>)
NaN == JsValue("number", "NaN", 0, <<>>)
Infinity == JsValue("number", "Infinity", 0, <<>>)
MinusInfinity == JsValue("number", "-Infinity", 0, <<>>)

\* no HonchoConfig yet
NoCfg == [threw |-> FALSE, apiKey |-> Missing, syncFrequency |-> Missing]

IdleReg ==
    [pc |-> "idle", cfg |-> NoCfg, warned |-> FALSE,
     hooks |-> {}, tools |-> {}, cli |-> FALSE]

InitConfigIdle ==
    /\ pluginConfig = [apiKey |-> Missing, syncFrequency |-> Missing]
    /\ env = [HONCHO_API_KEY |-> <<"undefined">>, V |-> <<"undefined">>]
    /\ reg = IdleReg

IdleHook ==
    [kind |-> "before_agent_start", pc |-> "idle", result |-> "none", warned |-> FALSE,
     error |-> [isError |-> FALSE, name |-> "", message |-> <<>>],
     thrownBy |-> "none", at |-> <<>>]

InitHookIdle ==
    /\ hook = IdleHook
    /\ hookCalls = 0

InitMergeIdle ==
    /\ mergeIn = [static |-> <<>>, section |-> "none", previous |-> <<>>, after |-> <<>>,
                  missing |-> TRUE, block |-> <<>>, timestamp |-> "t1",
                  keepsRest |-> FALSE]
    /\ merged = [file |-> <<"undefined">>, count |-> 0, first |-> <<"undefined">>]

InitPluginIdle == InitConfigIdle /\ InitHookIdle /\ InitMergeIdle

InitElsewhere == InitKeyIdle /\ InitTurnIdle /\ InitInstallIdle /\ InitPluginIdle

InitEngine ==
    /\ log = [t \in Threads |-> <<>>]
    /\ initialized = FALSE
    /\ ownerPeer = NoPeer
    /\ moltbotPeer = NoPeer
    /\ workspace = FALSE
    /\ remotePeers = {}
    /\ sessionExists = [k \in SessionKeys |-> FALSE]
    /\ sessionMeta = [k \in SessionKeys |-> Undefined]
    /\ sessionPeers = [k \in SessionKeys |-> {}]
    /\ sessionMessages = [k \in SessionKeys |-> <<>>]
    /\ runs = [r \in RunIds |-> IdleRun]
    /\ commits = [t \in Threads |-> [i \in 1..MaxLog |-> 0]]
    /\ bootIndex = [t \in Threads |-> Undefined]
    /\ firstEventLen = [t \in Threads |-> Undefined]
    /\ delivered = 0
    /\ lastRun = [t \in Threads |-> NoRun]
    /\ windowFailures = 0

Init == InitEngine /\ InitElsewhere

\* ------------------------------------------------------------------------
\* Helpers of the handler steps
\* ------------------------------------------------------------------------
Key(r) == KeyOf(runs[r].thread)

InFlight(r) == runs[r].pc # "idle"

\* the run after a remote call `op` returned (ok) or threw (~ok)
Called(rn, op, ok, arg) ==
    [rn EXCEPT !.calls = Append(@, [op |-> op, ok |-> ok, arg |-> arg,
                                    wm |-> sessionMeta[KeyOf(rn.thread)]])]

Summary(rn, outcome) ==
    [outcome |-> outcome, len |-> Len(rn.messages), from |-> rn.lastSavedIndex,
     window |-> (outcome = "error" /\ rn.pc = "set_meta")]

\* the handler returns (outcome "ok"), its catch block has run ("error"), or
\* an exception has left it ("raised")
Finished(rn, outcome) == [rn EXCEPT !.pc = "idle", !.outcome = outcome]

\* variant: ensureInitialized is awaited before the try block
InTryAfterInit(pc) ==
    pc \in {"session", "get_meta", "boot_meta", "add_peers", "skip_meta",
            "add_messages", "set_meta"}

\* the awaits that lie between `try {` (line 171) and `} catch` (line 224)
InTry(pc) ==
    pc \in {"init_ws", "init_owner", "init_moltbot", "session", "get_meta",
            "boot_meta", "add_peers", "skip_meta", "add_messages", "set_meta"}

\* a remote call threw: lines 224-233 only log
Throw(r, op, arg) ==
    /\ runs[r].pc = "set_meta" => windowFailures < MaxWindowFailures
    /\ LET outcome == IF InTry(runs[r].pc) THEN "error" ELSE "raised"
       IN  /\ runs' = [runs EXCEPT ![r] = Finished(Called(@, op, FALSE, arg), outcome)]
           /\ lastRun' = [lastRun EXCEPT ![runs[r].thread] = Summary(runs[r], outcome)]
    /\ windowFailures' = IF runs[r].pc = "set_meta" THEN windowFailures + 1 ELSE windowFailures
    /\ UNCHANGED <<log, closureVars, storeVars, commits, bootIndex, eventVars, elsewhere>>

\* variant: the success flag is not looked at
PreconditionIgnoresSuccess(success, hasMessages, messages) ==
    hasMessages /\ Len(messages) > 0

\* if (!event.success || !event.messages?.length) return;
Precondition(success, hasMessages, messages) ==
    success /\ hasMessages /\ Len(messages) > 0

Max(a, b) == IF a >= b THEN a ELSE b

\* variant: slice(lastSavedIndex + 1)
SliceIndicesOffByOne(messages, from) ==
    [j \in 1..(Len(messages) - from - 1) |-> from + 1 + j]

\* variant: no slice, the whole log is the delta
SliceIndicesAll(messages, from) == [j \in 1..Len(messages) |-> j]

\* event.messages.slice(lastSavedIndex): the positions of event.messages it keeps
\* (a turn at index i of the code is at position i + 1 here)
SliceIndices(messages, from) == [j \in 1..(Len(messages) - from) |-> from + j]

Slice(messages, from) ==
    LET ix == SliceIndices(messages, from)
    IN  [j \in DOMAIN ix |-> messages[ix[j]]]

\* ------------------------------------------------------------------------
\* The host
\* ------------------------------------------------------------------------
AppendTurn(t) ==
    /\ Len(log[t]) < MaxLog
    /\ \E m \in TurnPool : log' = [log EXCEPT ![t] = Append(@, m)]
    /\ UNCHANGED <<closureVars, storeVars, runs, histVars, elsewhere>>

\* the same, for the specification where two threads take turns
AppendTurnIsolation(t) ==
    /\ Len(log[t]) < MaxLogIsolation
    /\ \E m \in {UserTurn, ToolOnlyTurn} : log' = [log EXCEPT ![t] = Append(@, m)]
    /\ UNCHANGED <<closureVars, storeVars, runs, histVars, elsewhere>>

\* the same, for the specification where sync runs of a thread overlap
AppendTurnRace(t) ==
    /\ Len(log[t]) < MaxLogRace
    /\ \E m \in {UserTurn, ToolOnlyTurn} : log' = [log EXCEPT ![t] = Append(@, m)]
    /\ UNCHANGED <<closureVars, storeVars, runs, histVars, elsewhere>>

\* api.on("agent_end"): the event carries the thread's full log; the handler
\* runs to its first await
Accept(r, t) ==
    /\ ~InFlight(r)
    /\ \E success \in BOOLEAN, hasMessages \in BOOLEAN :
         LET messages == IF hasMessages THEN log[t] ELSE <<>>
             go == Precondition(success, hasMessages, messages)
         IN  runs' = [runs EXCEPT ![r] =
                        [IdleRun EXCEPT !.pc = IF go THEN "init_ws" ELSE "idle",
                                        !.outcome = IF go THEN "none" ELSE "skipped",
                                        !.thread = t,
                                        !.success = success,
                                        !.hasMessages = hasMessages,
                                        !.messages = messages,
                                        !.w0 = sessionMeta[KeyOf(t)]]]
    /\ UNCHANGED <<log, closureVars, storeVars, commits, bootIndex, lastRun,
                   windowFailures, elsewhere>>

\* events of one thread are delivered one at a time
Deliver(r, t) ==
    /\ \A q \in RunIds : InFlight(q) => runs[q].thread # t
    /\ Accept(r, t)

AgentEnd(r, t) == Deliver(r, t) /\ UNCHANGED eventVars

\* the same, with the events counted
AgentEndCounted(r, t) ==
    /\ delivered < MaxEvents
    /\ delivered' = delivered + 1
    /\ Deliver(r, t)
    /\ UNCHANGED firstEventLen

\* an event of a thread is delivered while an earlier run of it is in flight:
\* nothing in the handler waits for that run (runs[2] is the overlapping one)
AgentEndOverlapping(r, t) ==
    /\ r = 2 => InFlight(1)
    /\ delivered < MaxEvents
    /\ delivered' = delivered + 1
    /\ Accept(r, t)
    /\ UNCHANGED firstEventLen

\* the same, with the history of the thread's first event kept
AgentEndObserved(r, t) ==
    /\ Deliver(r, t)
    /\ firstEventLen' = [firstEventLen EXCEPT ![t] =
                            IF @ = Undefined THEN Len(log[t]) ELSE @]
    /\ UNCHANGED delivered

\* ------------------------------------------------------------------------
\* ensureInitialized
\* ------------------------------------------------------------------------
\* await honcho.setMetadata({}); if (initialized) return;
InitWorkspace(r) ==
    /\ runs[r].pc = "init_ws"
    /\ \/ /\ workspace' = TRUE
          /\ runs' = [runs EXCEPT ![r] =
                        [Called(@, "honcho.setMetadata", TRUE, 0) EXCEPT
                            !.pc = IF initialized THEN "session" ELSE "init_owner"]]
          /\ UNCHANGED <<log, closureVars, remotePeers, sessionVars, histVars, elsewhere>>
       \/ Throw(r, "honcho.setMetadata", 0)

\* ownerPeer = await honcho.peer(OWNER_ID, { metadata: {} });
InitOwner(r) ==
    /\ runs[r].pc = "init_owner"
    /\ \/ /\ remotePeers' = remotePeers \cup {OWNER_ID}
          /\ ownerPeer' = OWNER_ID
          /\ runs' = [runs EXCEPT ![r] =
                        [Called(@, "honcho.peer", TRUE, 0) EXCEPT !.pc = "init_moltbot"]]
          /\ UNCHANGED <<log, initialized, moltbotPeer, workspace, sessionVars,
                         histVars, elsewhere>>
       \/ Throw(r, "honcho.peer", 0)

\* moltbotPeer = await honcho.peer(MOLTBOT_ID, { metadata: {} }); initialized = true;
InitMoltbot(r) ==
    /\ runs[r].pc = "init_moltbot"
    /\ \/ /\ remotePeers' = remotePeers \cup {MOLTBOT_ID}
          /\ moltbotPeer' = MOLTBOT_ID
          /\ initialized' = TRUE
          /\ runs' = [runs EXCEPT ![r] =
                        [Called(@, "honcho.peer", TRUE, 0) EXCEPT !.pc = "session"]]
          /\ UNCHANGED <<log, ownerPeer, workspace, sessionVars, histVars, elsewhere>>
       \/ Throw(r, "honcho.peer", 0)

\* ------------------------------------------------------------------------
\* agent_end, after ensureInitialized
\* ------------------------------------------------------------------------
\* variant: a new session starts from the beginning of the log
StartIndexWholeLog(messages) == 0

\* const startIndex = Math.max(0, event.messages.length - 2);
StartIndex(messages) == Max(0, Len(messages) - 2)

\* const lastSavedIndex = (meta.lastSavedIndex as number) ?? 0;
LastSavedIndexOf(meta) == IF meta = Undefined THEN 0 ELSE meta

\* if (event.messages.length <= lastSavedIndex) return;
NothingNew(messages, lastSavedIndex) == Len(messages) <= lastSavedIndex

\* variants: the watermark written is one short, one long
NewWatermarkOffByOne(messages) == Len(messages) - 1

NewWatermarkPlusOne(messages) == Len(messages) + 1

\* setMetadata({ ...meta, lastSavedIndex: event.messages.length })
NewWatermark(messages) == Len(messages)

\* variant: the watermark is advanced before the delta is submitted
SuccessorAdvanceFirst(pc, rn) ==
    CASE pc = "session" -> "get_meta"
      [] pc = "get_meta" -> IF rn.meta = Undefined THEN "boot_meta" ELSE "add_peers"
      [] pc = "boot_meta" -> "add_peers"
      [] pc = "add_peers" ->
            IF NothingNew(rn.messages, rn.lastSavedIndex) THEN "idle"
            ELSE IF rn.extracted = <<>> THEN "skip_meta"
            ELSE "set_meta"
      [] pc = "skip_meta" -> "idle"
      [] pc = "set_meta" -> "add_messages"
      [] pc = "add_messages" -> "idle"

\* variant: the bootstrap write is not guarded by lastSavedIndex === undefined
SuccessorAlwaysBoot(pc, rn) ==
    CASE pc = "session" -> "get_meta"
      [] pc = "get_meta" -> "boot_meta"
      [] pc = "boot_meta" -> "add_peers"
      [] pc = "add_peers" ->
            IF NothingNew(rn.messages, rn.lastSavedIndex) THEN "idle"
            ELSE IF rn.extracted = <<>> THEN "skip_meta"
            ELSE "add_messages"
      [] pc = "skip_meta" -> "idle"
      [] pc = "add_messages" -> "set_meta"
      [] pc = "set_meta" -> "idle"

\* variant: a delta that extracts to nothing returns without the watermark write
SuccessorSkipNoWrite(pc, rn) ==
    CASE pc = "session" -> "get_meta"
      [] pc = "get_meta" -> IF rn.meta = Undefined THEN "boot_meta" ELSE "add_peers"
      [] pc = "boot_meta" -> "add_peers"
      [] pc = "add_peers" ->
            IF NothingNew(rn.messages, rn.lastSavedIndex) THEN "idle"
            ELSE IF rn.extracted = <<>> THEN "idle"
            ELSE "add_messages"
      [] pc = "skip_meta" -> "idle"
      [] pc = "add_messages" -> "set_meta"
      [] pc = "set_meta" -> "idle"

\* variant: the length check comes before addPeers
SuccessorCheckBeforePeers(pc, rn) ==
    CASE pc = "session" -> "get_meta"
      [] pc = "get_meta" ->
            IF rn.meta = Undefined THEN "boot_meta"
            ELSE IF NothingNew(rn.messages, rn.lastSavedIndex) THEN "idle"
            ELSE "add_peers"
      [] pc = "boot_meta" -> "add_peers"
      [] pc = "add_peers" ->
            IF NothingNew(rn.messages, rn.lastSavedIndex) THEN "idle"
            ELSE IF rn.extracted = <<>> THEN "skip_meta"
            ELSE "add_messages"
      [] pc = "skip_meta" -> "idle"
      [] pc = "add_messages" -> "set_meta"
      [] pc = "set_meta" -> "idle"

\* The handler's control flow from the statement at pc to the next remote
\* call; "idle" is a return
Successor(pc, rn) ==
    CASE pc = "session" -> "get_meta"
      [] pc = "get_meta" -> IF rn.meta = Undefined THEN "boot_meta" ELSE "add_peers"
      [] pc = "boot_meta" -> "add_peers"
      [] pc = "add_peers" ->
            IF NothingNew(rn.messages, rn.lastSavedIndex) THEN "idle"
            ELSE IF rn.extracted = <<>> THEN "skip_meta"
            ELSE "add_messages"
      [] pc = "skip_meta" -> "idle"
      [] pc = "add_messages" -> "set_meta"
      [] pc = "set_meta" -> "idle"

\* the run rn, just resumed from the remote call at runs[r].pc, goes on
Advance(r, rn) ==
    LET next == Successor(runs[r].pc, rn)
    IN  /\ runs' = [runs EXCEPT ![r] =
                      IF next = "idle" THEN Finished(rn, "ok") ELSE [rn EXCEPT !.pc = next]]
        /\ lastRun' = IF next = "idle"
                      THEN [lastRun EXCEPT ![rn.thread] = Summary(rn, "ok")]
                      ELSE lastRun

\* const session = await honcho.session(sessionKey, { metadata: {} });
ResolveSession(r) ==
    /\ runs[r].pc = "session"
    /\ \/ /\ sessionExists' = [sessionExists EXCEPT ![Key(r)] = TRUE]
          /\ Advance(r, Called(runs[r], "honcho.session", TRUE, 0))
          /\ UNCHANGED <<log, closureVars, workspace, remotePeers, sessionMeta,
                         sessionPeers, sessionMessages, commits, bootIndex, eventVars,
                         windowFailures, elsewhere>>
       \/ Throw(r, "honcho.session", 0)

\* let meta = await session.getMetadata();
GetMetadata(r) ==
    /\ runs[r].pc = "get_meta"
    /\ \/ /\ Advance(r, [Called(runs[r], "session.getMetadata", TRUE, 0) EXCEPT
                            !.meta = sessionMeta[Key(r)],
                            !.lastSavedIndex = LastSavedIndexOf(sessionMeta[Key(r)])])
          /\ UNCHANGED <<log, closureVars, storeVars, commits, bootIndex, eventVars,
                         windowFailures, elsewhere>>
       \/ Throw(r, "session.getMetadata", 0)

\* await session.setMetadata({ lastSavedIndex: startIndex }); meta = { lastSavedIndex: startIndex };
BootMetadata(r) ==
    /\ runs[r].pc = "boot_meta"
    /\ LET startIndex == StartIndex(runs[r].messages)
       IN  \/ /\ sessionMeta' = [sessionMeta EXCEPT ![Key(r)] = startIndex]
              /\ bootIndex' = [bootIndex EXCEPT ![runs[r].thread] =
                                  IF @ = Undefined THEN startIndex ELSE @]
              /\ Advance(r, [Called(runs[r], "session.setMetadata", TRUE, startIndex) EXCEPT
                                !.meta = startIndex,
                                !.lastSavedIndex = LastSavedIndexOf(startIndex)])
              /\ UNCHANGED <<log, closureVars, workspace, remotePeers, sessionExists,
                             sessionPeers, sessionMessages, commits, eventVars,
                             windowFailures, elsewhere>>
           \/ Throw(r, "session.setMetadata", startIndex)

\* await session.addPeers([...]); then the length check, slice and extractMessages
AddPeers(r) ==
    /\ runs[r].pc = "add_peers"
    /\ \/ /\ sessionPeers' = [sessionPeers EXCEPT ![Key(r)] = {OWNER_ID, MOLTBOT_ID}]
          /\ LET rn == runs[r]
                 newRawMessages == Slice(rn.messages, rn.lastSavedIndex)
                 messages == IF NothingNew(rn.messages, rn.lastSavedIndex) THEN <<>>
                             ELSE extractMessages(newRawMessages, ownerPeer, moltbotPeer)
             IN  Advance(r, [Called(rn, "session.addPeers", TRUE, 0) EXCEPT
                                !.extracted = messages])
          /\ UNCHANGED <<log, closureVars, workspace, remotePeers, sessionExists,
                         sessionMeta, sessionMessages, commits, bootIndex, eventVars,
                         windowFailures, elsewhere>>
       \/ Throw(r, "session.addPeers", 0)

\* await session.setMetadata({ ...meta, lastSavedIndex: event.messages.length }); return;
SkipMetadata(r) ==
    /\ runs[r].pc = "skip_meta"
    /\ LET n == NewWatermark(runs[r].messages)
       IN  \/ /\ sessionMeta' = [sessionMeta EXCEPT ![Key(r)] = n]
              /\ Advance(r, Called(runs[r], "session.setMetadata", TRUE, n))
              /\ UNCHANGED <<log, closureVars, workspace, remotePeers, sessionExists,
                             sessionPeers, sessionMessages, commits, bootIndex, eventVars,
                             windowFailures, elsewhere>>
           \/ Throw(r, "session.setMetadata", n)

\* await session.addMessages(messages);
AddMessages(r) ==
    /\ runs[r].pc = "add_messages"
    /\ LET rn == runs[r]
           ix == SliceIndices(rn.messages, rn.lastSavedIndex)
           stored == {i \in {ix[j] : j \in DOMAIN ix} : TurnText(rn.messages[i]) # <<>>}
       IN  \/ /\ sessionMessages' = [sessionMessages EXCEPT ![Key(r)] = @ \o rn.extracted]
              /\ commits' = [commits EXCEPT ![rn.thread] =
                                [i \in DOMAIN @ |-> IF i \in stored THEN @[i] + 1 ELSE @[i]]]
              /\ Advance(r, [Called(rn, "session.addMessages", TRUE, Len(rn.extracted)) EXCEPT
                                !.sent = @ \o rn.extracted])
              /\ UNCHANGED <<log, closureVars, workspace, remotePeers, sessionExists,
                             sessionMeta, sessionPeers, bootIndex, eventVars,
                             windowFailures, elsewhere>>
           \/ Throw(r, "session.addMessages", Len(rn.extracted))

\* await session.setMetadata({ ...meta, lastSavedIndex: event.messages.length });
SetMetadata(r) ==
    /\ runs[r].pc = "set_meta"
    /\ LET n == NewWatermark(runs[r].messages)
       IN  \/ /\ sessionMeta' = [sessionMeta EXCEPT ![Key(r)] = n]
              /\ Advance(r, Called(runs[r], "session.setMetadata", TRUE, n))
              /\ UNCHANGED <<log, closureVars, workspace, remotePeers, sessionExists,
                             sessionPeers, sessionMessages, commits, bootIndex, eventVars,
                             windowFailures, elsewhere>>
           \/ Throw(r, "session.setMetadata", n)

\* ------------------------------------------------------------------------
\* Specification
\* ------------------------------------------------------------------------
HandlerStep ==
    \/ \E r \in RunIds : InitWorkspace(r)
    \/ \E r \in RunIds : InitOwner(r)
    \/ \E r \in RunIds : InitMoltbot(r)
    \/ \E r \in RunIds : ResolveSession(r)
    \/ \E r \in RunIds : GetMetadata(r)
    \/ \E r \in RunIds : BootMetadata(r)
    \/ \E r \in RunIds : AddPeers(r)
    \/ \E r \in RunIds : SkipMetadata(r)
    \/ \E r \in RunIds : AddMessages(r)
    \/ \E r \in RunIds : SetMetadata(r)

\* one thread, its events handled one at a time
Next ==
    \/ \E t \in SerialThreads : AppendTurn(t)
    \/ \E r \in SerialRuns, t \in SerialThreads : AgentEnd(r, t)
    \/ HandlerStep

Spec == Init /\ [][Next]_vars

NextFirstEvent ==
    \/ \E t \in SerialThreads : AppendTurn(t)
    \/ \E r \in SerialRuns, t \in SerialThreads : AgentEndObserved(r, t)
    \/ HandlerStep

\* Spec with the length of each thread's log at its first event recorded
SpecFirstEvent == Init /\ [][NextFirstEvent]_vars

\* the host appends a turn, where events keep being delivered
AppendTurnLive(t) ==
    /\ Len(log[t]) < MaxLogLive
    /\ \E m \in {UserTurn, ToolOnlyTurn} : log' = [log EXCEPT ![t] = Append(@, m)]
    /\ UNCHANGED <<closureVars, storeVars, runs, histVars, elsewhere>>

NextLive ==
    \/ \E t \in SerialThreads : AppendTurnLive(t)
    \/ \E r \in SerialRuns, t \in SerialThreads : AgentEnd(r, t)
    \/ HandlerStep

\* an agent_end event that passes the handler's first check
TriggerSync ==
    \E r \in SerialRuns, t \in SerialThreads : AgentEnd(r, t) /\ runs'[r].pc = "init_ws"

\* the remote calls a run awaits, by the position of the run
CallPcs == {"init_ws", "init_owner", "init_moltbot", "session", "get_meta",
            "boot_meta", "add_peers", "skip_meta", "add_messages", "set_meta"}

\* a run waits for the remote call at pc
Awaiting(pc) == \E r \in SerialRuns : runs[r].pc = pc

\* the remote call awaited at pc returns and the run goes on
CallSucceeds(pc) ==
    \E r \in SerialRuns :
        /\ runs[r].pc = pc
        /\ runs'[r] # runs[r]
        /\ runs'[r].outcome \notin {"error", "raised"}

\* the host keeps delivering events; a remote call that is awaited again and
\* again returns again and again (strong fairness of each call's return,
\* which is enabled exactly while the call is awaited)
Fairness ==
    /\ WF_vars(TriggerSync)
    /\ \A pc \in CallPcs :
           \/ <>[]~Awaiting(pc)
           \/ []<><<CallSucceeds(pc)>>_vars

\* one thread, its events handled one at a time and delivered again and again
SpecLive == Init /\ [][NextLive]_vars /\ Fairness

\* two threads, their events handled one at a time
NextIsolation ==
    \/ \E t \in Threads : AppendTurnIsolation(t)
    \/ \E r \in SerialRuns, t \in Threads : AgentEndCounted(r, t)
    \/ HandlerStep

SpecIsolation == Init /\ [][NextIsolation]_vars

\* one thread, a second event delivered while the run of the first is in flight
NextRace ==
    \/ \E t \in SerialThreads : AppendTurnRace(t)
    \/ \E r \in RunIds, t \in SerialThreads : AgentEndOverlapping(r, t)
    \/ HandlerStep

SpecRace == Init /\ [][NextRace]_vars

\* ------------------------------------------------------------------------
\* extractMessages on one turn that holds an injected memory block
\* ------------------------------------------------------------------------
InitSanitize ==
    /\ InitEngine
    /\ InitKeyIdle
    /\ InitInstallIdle
    /\ InitPluginIdle
    /\ turnIn \in InjectedTurns
    /\ turnOut = [called |-> FALSE, entries |-> <<>>]

ExtractTurn ==
    /\ ~turnOut.called
    /\ turnOut' = [called |-> TRUE,
                   entries |-> extractMessages(<<turnIn>>, OWNER_ID, MOLTBOT_ID)]
    /\ UNCHANGED <<log, closureVars, storeVars, runs, histVars, keyVars, turnIn,
                   installVars, pluginVars>>

NextSanitize == ExtractTurn

SpecSanitize == InitSanitize /\ [][NextSanitize]_vars

\* ------------------------------------------------------------------------
\* extractMessages on a sequence of raw messages
\* ------------------------------------------------------------------------
\* raw messages of every shape the loop tells apart: roles that are kept and
\* roles that are not, string content with and without markup, white space
\* only, block arrays with text blocks, tool blocks and a text block whose
\* text is no string, and content that is neither string nor array
RawMessages ==
    {UserTurn, AssistantTurn, ToolOnlyTurn,
     [role |-> "user", content |-> StringContent(<<SP, NL>>)],
     [role |-> "user",
      content |-> BlockContent(<<TextBlock(<<"h">>), ToolUseBlock, TextBlock(<<"i", SP>>)>>)],
     [role |-> "assistant", content |-> StringContent(<<OPEN, "k", CLOSE, SP, "o">>)],
     [role |-> "assistant",
      content |-> BlockContent(<<[type |-> "text", isString |-> FALSE, text |-> <<>>],
                                 TextBlock(<<"o">>)>>)],
     [role |-> "toolResult", content |-> StringContent(<<"x">>)],
     [role |-> "system", content |-> StringContent(<<"y">>)],
     [role |-> "user", content |-> [kind |-> "none", text |-> <<>>, blocks |-> <<>>]]}

InitExtract ==
    /\ InitEngine
    /\ InitKeyIdle
    /\ InitInstallIdle
    /\ InitPluginIdle
    /\ turnIn \in SeqsUpTo(RawMessages, MaxTurns)
    /\ turnOut = [called |-> FALSE, entries |-> <<>>]

ExtractLog ==
    /\ ~turnOut.called
    /\ turnOut' = [called |-> TRUE,
                   entries |-> extractMessages(turnIn, OWNER_ID, MOLTBOT_ID)]
    /\ UNCHANGED <<log, closureVars, storeVars, runs, histVars, keyVars, turnIn,
                   installVars, pluginVars>>

NextExtract == ExtractLog

SpecExtract == InitExtract /\ [][NextExtract]_vars

\* ------------------------------------------------------------------------
\* buildSessionKey on one hook context
\* ------------------------------------------------------------------------
InitKey ==
    /\ InitEngine
    /\ InitTurnIdle
    /\ InitInstallIdle
    /\ InitPluginIdle
    /\ keyCtx \in Contexts
    /\ keyResult = NotCalled

BuildKey ==
    /\ keyResult = NotCalled
    /\ keyResult' = buildSessionKey(keyCtx)
    /\ UNCHANGED <<log, closureVars, storeVars, runs, histVars, turnVars, keyCtx,
                   installVars, pluginVars>>

NextKey == BuildKey

SpecKey == InitKey /\ [][NextKey]_vars

\* ------------------------------------------------------------------------
\* The install scripts: main, updateWorkspaceDocs, migrateAndCleanup
\* ------------------------------------------------------------------------
\* what earlier runs of the archiving script may have left in archive/: the
\* plain name, or the plain name and the name with this run's timestamp, or
\* under the plain name a relative symbolic link that resolved in the
\* workspace and, renamed into archive/, resolves no more
EarlierArchives ==
    {{[name |-> <<"USER.md", k>>, from |-> "USER.md", holds |-> "legacy"] : k \in 0..n}
        : n \in 0..1}
    \cup {{[name |-> <<"USER.md", 0>>, from |-> "USER.md", holds |-> "dangling"]}}

InitInstall ==
    /\ InitEngine
    /\ InitKeyIdle
    /\ InitTurnIdle
    /\ InitPluginIdle
    /\ script \in Scripts
    /\ apiKey \in BOOLEAN
    /\ fs \in {f \in [Items -> FileStates] :
                /\ f["USER.md"] \in {"absent", "legacy", "blank", "unreadable"}
                /\ f["SOUL.md"] \in {"absent", "legacy"}
                /\ f["TOOLS.md"] \in {"absent", "legacy"}
                /\ f["memory"] \in {"absent", "legacy", "blank", "unreadable", "special"}}
    /\ archiveDir \in BOOLEAN
    /\ archive \in IF archiveDir THEN EarlierArchives ELSE {{}}
    /\ facts = [it \in Items |-> 0]
    /\ install = IdleInstall
    /\ installs = 0

engineVars == <<log, closureVars, storeVars, runs, histVars, keyVars, turnVars>>

\* fileExists(path): stat succeeds
fileExists(item) == fs[item] # "absent"

\* main() is started
StartInstall ==
    /\ install.pc = "idle"
    /\ installs < MaxInstalls
    /\ installs' = installs + 1
    /\ install' = [IdleInstall EXCEPT !.pc = "docs", !.before = fs,
                                      !.archiveBefore = archive,
                                      !.archiveDirBefore = archiveDir]
    /\ UNCHANGED <<engineVars, pluginVars, script, apiKey, fs, archiveDir, archive, facts>>

\* await updateWorkspaceDocs(): every target that exists is overwritten
updateWorkspaceDocs ==
    /\ install.pc = "docs"
    /\ fs' = [it \in Items |->
                IF it \in docsToSync /\ fileExists(it) THEN "template" ELSE fs[it]]
    /\ install' = [install EXCEPT !.pc = "collect"]
    /\ UNCHANGED <<engineVars, pluginVars, script, apiKey, archiveDir, archive, facts, installs>>

\* readFile(...).trim() is non-empty: a conclusion is pushed. A missing or
\* unreadable file throws into the empty catch; in a directory, an entry
\* that is no file is passed over and an unreadable one only warned about
Collected(item) == fs[item] \in {"legacy", "template"}

\* migrateAndCleanup: the two collection loops
collectFromDir ==
    /\ install.pc = "collect"
    /\ install' = [install EXCEPT !.pc = "api_key", !.collected = TRUE, !.found = fs,
                                  !.conclusions = {it \in Items : Collected(it)}]
    /\ UNCHANGED <<engineVars, pluginVars, script, apiKey, fs, archiveDir, archive, facts, installs>>

ownerConclusions == {it \in install.conclusions : isAboutOwner(it)}
selfConclusions == {it \in install.conclusions : ~isAboutOwner(it)}

\* variant: every script goes on to the cleanup when the migration failed
GatesCleanupNever(sc) == FALSE

\* the script returns before the cleanup when the migration did not succeed
GatesCleanup(sc) == sc \in {"archive", "remove"}

\* where the cleanup begins
CleanupStart(in) ==
    IF script = "archive" THEN [in EXCEPT !.pc = "ensure_dir"]
    ELSE [in EXCEPT !.pc = "cleanup", !.i = 1]

\* the migration did not succeed: return, or warn and clean up
Abandon(outcome) ==
    install' = IF GatesCleanup(script)
               THEN [install EXCEPT !.pc = "idle", !.outcome = outcome,
                                    !.migration = outcome]
               ELSE CleanupStart([install EXCEPT !.migration = outcome])

\* the remote call that follows the one at pc
AfterRemote(pc) ==
    LET batches == IF ownerConclusions # {} THEN "owner_batch"
                   ELSE IF selfConclusions # {} THEN "self_batch"
                   ELSE "done"
    IN  CASE pc = "set_metadata" -> "peer_agent"
          [] pc = "peer_agent" -> "peer_owner"
          [] pc = "peer_owner" -> batches
          [] pc = "owner_batch" -> IF selfConclusions # {} THEN "self_batch" ELSE "done"
          [] pc = "self_batch" -> "done"

\* workspaceId: process.env.HONCHO_WORKSPACE_ID || "openclaw" ("moltbot" in
\* the script that always cleans up)
ScriptWorkspaceId(sc, envValue) ==
    IF envValue \notin {Absent, <<>>} THEN envValue
    ELSE IF sc = "always" THEN <<"moltbot">> ELSE <<"openclaw">>

\* new Honcho({ apiKey, baseURL, workspaceId }), HONCHO_WORKSPACE_ID unset
Connect(in) == [in EXCEPT !.store.workspaceId = ScriptWorkspaceId(script, Absent)]

\* honcho.peer("openclaw") (getOrCreate("moltbot") in the script that always
\* cleans up) and honcho.peer("owner")
AgentPeerId(sc) == IF sc = "always" THEN "moltbot" ELSE "openclaw"
OwnerPeerId(sc) == "owner"

\* the run after the remote call at pc returned
Resolved(pc, in) ==
    CASE pc = "peer_agent" -> [in EXCEPT !.store.agent = AgentPeerId(script)]
      [] pc = "peer_owner" -> [in EXCEPT !.store.owner = OwnerPeerId(script)]
      [] OTHER -> in

Proceed(pc) ==
    LET next == AfterRemote(pc)
        in == Resolved(pc, install)
    IN  install' = IF next = "done"
                   THEN CleanupStart([in EXCEPT !.migration = "succeeded"])
                   ELSE [in EXCEPT !.pc = next]

\* const apiKey = process.env.HONCHO_API_KEY; if (apiKey) ... else ...
CheckApiKey ==
    /\ install.pc = "api_key"
    /\ IF script = "always"
       THEN IF install.conclusions # {} /\ apiKey
            THEN install' = [Connect(install) EXCEPT !.pc = "peer_agent"]
            ELSE install' = CleanupStart([install EXCEPT !.migration = "skipped"])
       ELSE IF apiKey
            THEN install' = [Connect(install) EXCEPT !.pc =
                                IF script = "archive" THEN "set_metadata" ELSE "peer_agent"]
            ELSE Abandon("no_key")
    /\ UNCHANGED <<engineVars, pluginVars, script, apiKey, fs, archiveDir, archive, facts, installs>>

\* await honcho.setMetadata({}); await honcho.peer("openclaw"); await honcho.peer("owner")
ResolvePeers ==
    /\ install.pc \in {"set_metadata", "peer_agent", "peer_owner"}
    /\ \/ Proceed(install.pc)
       \/ Abandon("failed")
    /\ UNCHANGED <<engineVars, pluginVars, script, apiKey, fs, archiveDir, archive, facts, installs>>

\* await openclawPeer.conclusionsOf(ownerPeer).create(ownerConclusions...)
CreateOwnerConclusions ==
    /\ install.pc = "owner_batch"
    /\ \/ /\ facts' = [it \in Items |->
                         IF it \in ownerConclusions THEN facts[it] + 1 ELSE facts[it]]
          /\ Proceed("owner_batch")
       \/ /\ Abandon("failed")
          /\ UNCHANGED facts
    /\ UNCHANGED <<engineVars, pluginVars, script, apiKey, fs, archiveDir, archive, installs>>

\* await openclawPeer.conclusions.create(selfConclusions...)
CreateSelfConclusions ==
    /\ install.pc = "self_batch"
    /\ \/ /\ facts' = [it \in Items |->
                         IF it \in selfConclusions THEN facts[it] + 1 ELSE facts[it]]
          /\ Proceed("self_batch")
       \/ /\ Abandon("failed")
          /\ UNCHANGED facts
    /\ UNCHANGED <<engineVars, pluginVars, script, apiKey, fs, archiveDir, archive, installs>>

\* await ensureDir(archiveDir): mkdir -p; an error other than EEXIST leaves main
ensureDir ==
    /\ install.pc = "ensure_dir"
    /\ \/ /\ archiveDir' = TRUE
          /\ install' = [install EXCEPT !.pc = "cleanup", !.i = 1]
       \/ /\ install' = [install EXCEPT !.pc = "idle", !.outcome = "crashed"]
          /\ UNCHANGED archiveDir
    /\ UNCHANGED <<engineVars, pluginVars, script, apiKey, fs, archive, facts, installs>>

\* fileExists(candidate) under archive/: stat follows a symbolic link and
\* fails on one whose target is missing
statsOk(entry) == entry.holds # "dangling"

\* the first free name: name, name-<timestamp>, name-<timestamp>-1, ...
\* (<<name, 0>> is the plain name, <<name, k>> the k-th suffixed one)
uniqueArchivePath(name) ==
    LET taken == {e.name[2] : e \in {x \in archive : x.name[1] = name /\ statsOk(x)}}
    IN  <<name, CHOOSE k \in 0..Cardinality(archive) :
                    k \notin taken /\ \A j \in 0..(k - 1) : j \in taken>>

\* one round of the cleanup loops: rename into archive/ (rename replaces
\* what its destination names), or rm
CleanupItem ==
    /\ install.pc = "cleanup"
    /\ LET list == CleanupList(script)
           item == list[install.i]
           here == [install EXCEPT !.visited = @ \cup {item}]
           onward(in) == IF in.i = Len(list)
                         THEN [in EXCEPT !.pc = "idle", !.outcome = "complete"]
                         ELSE [in EXCEPT !.i = @ + 1]
           moved == LET destination == uniqueArchivePath(item)
                    IN  {e \in archive : e.name # destination}
                            \cup {[name |-> destination,
                                   from |-> item, holds |-> fs[item]]}
       IN  \/ /\ ~fileExists(item)
              /\ install' = onward(here)
              /\ UNCHANGED <<fs, archive>>
           \/ /\ fileExists(item)
              /\ fs' = [fs EXCEPT ![item] = "absent"]
              /\ archive' = IF script = "archive" THEN moved ELSE archive
              /\ install' = onward(here)
           \* the path exists again when it is looked at after the rename
           \* (it was written anew meanwhile): "Failed to archive"
           \/ /\ fileExists(item)
              /\ script = "archive"
              /\ fs' = [fs EXCEPT ![item] = "legacy"]
              /\ archive' = moved
              /\ install' = onward([here EXCEPT !.failed = @ \cup {item},
                                                !.reported = @ \cup {item}])
           \* rename or rm throws: nothing in the loop catches it
           \/ /\ fileExists(item)
              /\ install' = [here EXCEPT !.pc = "idle", !.outcome = "crashed",
                                         !.failed = @ \cup {item}]
              /\ UNCHANGED <<fs, archive>>
    /\ UNCHANGED <<engineVars, pluginVars, script, apiKey, archiveDir, facts, installs>>

NextInstall ==
    \/ StartInstall
    \/ updateWorkspaceDocs
    \/ collectFromDir
    \/ CheckApiKey
    \/ ResolvePeers
    \/ CreateOwnerConclusions
    \/ CreateSelfConclusions
    \/ ensureDir
    \/ CleanupItem

SpecInstall == InitInstall /\ [][NextInstall]_vars

\* a workspace that no install script has run on yet
InitReinstall ==
    /\ InitEngine
    /\ InitKeyIdle
    /\ InitTurnIdle
    /\ InitPluginIdle
    /\ script \in Scripts
    /\ apiKey \in BOOLEAN
    /\ fs \in [Items -> {"absent", "legacy"}]
    /\ archiveDir = FALSE
    /\ archive = {}
    /\ facts = [it \in Items |-> 0]
    /\ install = IdleInstall
    /\ installs = 0

\* main() is started, on a workspace it may have run on before
StartReinstall ==
    /\ install.pc = "idle"
    /\ installs < MaxReinstalls
    /\ installs' = installs + 1
    /\ install' = [IdleInstall EXCEPT !.pc = "docs", !.before = fs,
                                      !.archiveBefore = archive,
                                      !.archiveDirBefore = archiveDir]
    /\ UNCHANGED <<engineVars, pluginVars, script, apiKey, fs, archiveDir, archive, facts>>

NextReinstall ==
    \/ StartReinstall
    \/ updateWorkspaceDocs
    \/ collectFromDir
    \/ CheckApiKey
    \/ ResolvePeers
    \/ CreateOwnerConclusions
    \/ CreateSelfConclusions
    \/ ensureDir
    \/ CleanupItem

\* an install script run again and again on one workspace
SpecReinstall == InitReinstall /\ [][NextReinstall]_vars

\* ------------------------------------------------------------------------
\* honchoConfigSchema.parse and register (src/config.ts, src/index.ts)
\* ------------------------------------------------------------------------
typeof(v) == v.type
isNaN(v) == v.is = "NaN"

\* a <= b on numbers that are not NaN
Leq(a, b) ==
    \/ a.is = "-Infinity"
    \/ b.is = "Infinity"
    \/ a.is = "finite" /\ b.is = "finite" /\ a.h <= b.h

\* variant: rounds up
MathCeil(v) == IF v.is = "finite" THEN Finite(2 * ((v.h + 1) \div 2)) ELSE v

MathFloor(v) == IF v.is = "finite" THEN Finite(2 * (v.h \div 2)) ELSE v
MathMin(a, b) == IF Leq(a, b) THEN a ELSE b
MathMax(a, b) == IF Leq(a, b) THEN b ELSE a

\* the first index from i on where s holds "}", or 0
RECURSIVE ClosingBrace(_, _)
ClosingBrace(s, i) ==
    IF i > Len(s) THEN 0
    ELSE IF s[i] = "}" THEN i
    ELSE ClosingBrace(s, i + 1)

\* process.env[envVar]: this model's environment holds HONCHO_API_KEY and V
EnvValue(e, name) == IF name = <<"V">> THEN e.V ELSE Absent

\* value.replace(/\$\{([^}]+)\}/g, ...): every ${NAME} becomes the value of
\* NAME; an unset or empty NAME throws
RECURSIVE resolveEnvVars(_, _)
resolveEnvVars(value, e) ==
    IF value = <<>> THEN [threw |-> FALSE, s |-> <<>>]
    ELSE LET close == ClosingBrace(value, 3)
             matches == /\ Len(value) >= 4
                        /\ value[1] = "$"
                        /\ value[2] = "{"
                        /\ value[3] # "}"
                        /\ close # 0
         IN  IF matches
             THEN LET envValue == EnvValue(e, SubSeq(value, 3, close - 1))
                      rest == resolveEnvVars(SubSeq(value, close + 1, Len(value)), e)
                  IN  IF envValue = Absent \/ envValue = <<>> \/ rest.threw
                      THEN [threw |-> TRUE, s |-> <<>>]
                      ELSE [threw |-> FALSE, s |-> envValue \o rest.s]
             ELSE LET rest == resolveEnvVars(Tail(value), e)
                  IN  IF rest.threw THEN rest
                      ELSE [threw |-> FALSE, s |-> <<Head(value)>> \o rest.s]

\* workspaceId of the parsed configuration: cfg.workspaceId when it is a
\* non-empty string, else process.env.HONCHO_WORKSPACE_ID ?? "moltbot"
workspaceId(value, envValue) ==
    IF typeof(value) = "string" /\ Len(value.s) > 0 THEN value.s
    ELSE IF envValue # Absent THEN envValue ELSE <<"moltbot">>

\* honchoConfigSchema.parse(value), the options this model follows
parse(value, e) ==
    LET resolved == IF typeof(value.apiKey) = "string" /\ Len(value.apiKey.s) > 0
                    THEN resolveEnvVars(value.apiKey.s, e)
                    ELSE [threw |-> FALSE, s |-> e.HONCHO_API_KEY]
        sf == value.syncFrequency
    IN  IF resolved.threw THEN [NoCfg EXCEPT !.threw = TRUE]
        ELSE [threw |-> FALSE,
              apiKey |-> IF resolved.s = Absent THEN Missing ELSE Str(resolved.s),
              syncFrequency |->
                  IF typeof(sf) = "number" /\ ~isNaN(sf)
                  THEN MathMax(Finite(2 * 1), MathMin(Finite(2 * 1440), MathFloor(sf)))
                  ELSE Finite(2 * 60)]

\* !cfg.apiKey
NoApiKey(cfg) == cfg.apiKey = Missing \/ cfg.apiKey = Str(<<>>)

Hooks == {"gateway_start", "before_agent_start", "agent_end"}
Tools == {"honcho_session", "honcho_profile", "honcho_search", "honcho_context",
          "honcho_recall", "honcho_analyze"}

\* the values of syncFrequency that are tried
SyncFrequencies ==
    {Missing, Null, Bool(TRUE), Str(<<"3", "0">>), NaN, Infinity, MinusInfinity}
        \cup {Finite(h) : h \in (-2 * MaxOver)..(2 * MaxOver + 3)}
        \cup {Finite(h) : h \in (2 * (1440 - MaxOver))..(2 * (1440 + MaxOver))}

\* the strings of apiKey that are tried
RefChars == {"$", "{", "}", "V", "k"}
RefStrings == SeqsUpTo(RefChars, MaxRef)
EnvValues == {Absent, <<>>, <<"k">>}

InitConfig ==
    /\ InitEngine
    /\ InitKeyIdle
    /\ InitTurnIdle
    /\ InitInstallIdle
    /\ InitHookIdle
    /\ InitMergeIdle
    /\ pluginConfig \in [apiKey : {Missing, Str(<<"k">>), Str(<<"$", "{", "V", "}">>)},
                         syncFrequency : SyncFrequencies]
    /\ env \in [HONCHO_API_KEY : {Absent}, V : {Absent, <<"k">>}]
    /\ reg = IdleReg

\* const cfg = honchoConfigSchema.parse(api.pluginConfig) on its own
Parse ==
    /\ reg.pc = "idle"
    /\ reg' = [reg EXCEPT !.pc = IF parse(pluginConfig, env).threw THEN "threw" ELSE "parsed",
                          !.cfg = parse(pluginConfig, env)]
    /\ UNCHANGED <<engineVars, installVars, hookVars, mergeVars, pluginConfig, env>>

NextConfig == Parse

SpecConfig == InitConfig /\ [][NextConfig]_vars

InitRegister ==
    /\ InitEngine
    /\ InitKeyIdle
    /\ InitTurnIdle
    /\ InitInstallIdle
    /\ InitHookIdle
    /\ InitMergeIdle
    /\ pluginConfig \in [apiKey : {Missing} \cup {Str(s) : s \in RefStrings},
                         syncFrequency : {Missing}]
    /\ env \in [HONCHO_API_KEY : EnvValues, V : EnvValues]
    /\ reg = IdleReg

\* register(api): parse, warn when there is no key, construct the client
\* (the SDK's constructor is taken to return), register hooks, tools and CLI
register ==
    /\ reg.pc = "idle"
    /\ LET cfg == parse(pluginConfig, env)
       IN  reg' = IF cfg.threw
                  THEN [reg EXCEPT !.pc = "threw", !.cfg = cfg]
                  ELSE [pc |-> "loaded", cfg |-> cfg, warned |-> NoApiKey(cfg),
                        hooks |-> Hooks, tools |-> Tools, cli |-> TRUE]
    /\ UNCHANGED <<engineVars, installVars, hookVars, mergeVars, pluginConfig, env>>

NextRegister == register

SpecRegister == InitRegister /\ [][NextRegister]_vars

\* ------------------------------------------------------------------------
\* before_agent_start and the honcho_session tool (src/index.ts)
\* ------------------------------------------------------------------------
HookKinds == {"before_agent_start", "honcho_session"}

\* event.prompt.length of a before_agent_start event
PromptLengths == {0, 4, 5}

\* the message of a thrown value, word by word
Messages ==
    {<<"Session", "not", "found">>, <<"404", "Not", "Found">>,
     <<"found", "not">>, <<"timeout">>}

\* what a rejected remote call throws: an Error (or something that is none)
\* with a name and a message
Errors == [isError : BOOLEAN, name : {"NotFoundError", "Error"}, message : Messages]
OtherError == [isError |-> TRUE, name |-> "Error", message |-> <<"timeout">>]

\* String.prototype.toLowerCase on the words of this model
toLowerCase(message) ==
    [i \in DOMAIN message |->
        CASE message[i] = "Not" -> "not"
          [] message[i] = "Found" -> "found"
          [] message[i] = "Session" -> "session"
          [] OTHER -> message[i]]

\* message.includes("not found")
IncludesNotFound(message) ==
    \E i \in 1..(Len(message) - 1) : message[i] = "not" /\ message[i + 1] = "found"

\* variant: the message is searched as it is
isNotFoundCaseSensitive(e) ==
    e.isError /\ (e.name = "NotFoundError" \/ IncludesNotFound(e.message))

\* e instanceof Error && (e.name === "NotFoundError" ||
\*                        e.message.toLowerCase().includes("not found"))
isNotFound(e) ==
    e.isError /\ (e.name = "NotFoundError" \/ IncludesNotFound(toLowerCase(e.message)))

\* the plugin's closure and the store, as one value
PluginState == <<initialized, ownerPeer, moltbotPeer, workspace, remotePeers,
                 sessionExists, sessionMeta, sessionPeers, sessionMessages>>

hookFrame == <<log, runs, histVars, keyVars, turnVars, installVars, configVars, mergeVars>>

InitHook ==
    /\ InitEngine
    /\ InitKeyIdle
    /\ InitTurnIdle
    /\ InitInstallIdle
    /\ InitConfigIdle
    /\ InitHookIdle
    /\ InitMergeIdle

\* the host calls the handler, or the agent calls the tool
HookStart(kind, promptLength) ==
    /\ hook.pc = "idle"
    /\ hookCalls < MaxHookCalls
    /\ hookCalls' = hookCalls + 1
    /\ hook' = IF kind = "before_agent_start" /\ promptLength < 5
               THEN [IdleHook EXCEPT !.kind = kind, !.result = "undefined"]
               ELSE [IdleHook EXCEPT !.kind = kind, !.pc = "workspace"]
    /\ UNCHANGED <<closureVars, storeVars, hookFrame>>

\* a remote call of the handler throws e: before_agent_start is inside its
\* try from ensureInitialized on and warns; the tool's try begins after
\* ensureInitialized, and its catch rethrows what is no not-found error
HookThrow(op, e) ==
    hook' = [hook EXCEPT
        !.pc = "idle",
        !.error = e,
        !.thrownBy = op,
        !.at = IF op = "session.context" THEN PluginState ELSE @,
        !.warned = /\ hook.kind = "before_agent_start"
                   /\ ~(op = "session.context" /\ isNotFound(e)),
        !.result = IF hook.kind = "before_agent_start" THEN "undefined"
                   ELSE IF op \in {"honcho.session", "session.context"} /\ isNotFound(e)
                   THEN "new session"
                   ELSE "raised"]

\* ensureInitialized: await honcho.setMetadata({}); if (initialized) return;
HookInitWorkspace ==
    /\ hook.pc = "workspace"
    /\ \/ /\ workspace' = TRUE
          /\ hook' = [hook EXCEPT !.pc = IF initialized THEN "session" ELSE "owner"]
       \/ /\ HookThrow("honcho.setMetadata", OtherError)
          /\ UNCHANGED workspace
    /\ UNCHANGED <<closureVars, remotePeers, sessionVars, hookCalls, hookFrame>>

HookInitOwner ==
    /\ hook.pc = "owner"
    /\ \/ /\ remotePeers' = remotePeers \cup {OWNER_ID}
          /\ ownerPeer' = OWNER_ID
          /\ hook' = [hook EXCEPT !.pc = "moltbot"]
       \/ /\ HookThrow("honcho.peer", OtherError)
          /\ UNCHANGED <<remotePeers, ownerPeer>>
    /\ UNCHANGED <<initialized, moltbotPeer, workspace, sessionVars, hookCalls, hookFrame>>

HookInitMoltbot ==
    /\ hook.pc = "moltbot"
    /\ \/ /\ remotePeers' = remotePeers \cup {MOLTBOT_ID}
          /\ moltbotPeer' = MOLTBOT_ID
          /\ initialized' = TRUE
          /\ hook' = [hook EXCEPT !.pc = "session"]
       \/ /\ HookThrow("honcho.peer", OtherError)
          /\ UNCHANGED <<remotePeers, moltbotPeer, initialized>>
    /\ UNCHANGED <<ownerPeer, workspace, sessionVars, hookCalls, hookFrame>>

\* before_agent_start: await honcho.session(sessionKey, { metadata: {} })
\* gets or creates the session; the tool's honcho.session(sessionKey) is
\* given no options and only makes the handle
HookSession ==
    /\ hook.pc = "session"
    /\ \/ /\ sessionExists' =
                IF hook.kind = "before_agent_start"
                THEN [sessionExists EXCEPT ![KeyOf("t1")] = TRUE]
                ELSE sessionExists
          /\ hook' = [hook EXCEPT !.pc = "context"]
       \/ /\ \E e \in {OtherError} : HookThrow("honcho.session", e)
          /\ UNCHANGED sessionExists
    /\ UNCHANGED <<closureVars, workspace, remotePeers, sessionMeta, sessionPeers,
                   sessionMessages, hookCalls, hookFrame>>

\* await session.context({...}) and what follows it: the sections are put
\* together and returned, or there are none, or the query throws
HookContext ==
    /\ hook.pc = "context"
    /\ \/ \E sections \in BOOLEAN :
            hook' = [hook EXCEPT
                !.pc = "idle",
                !.at = PluginState,
                !.result = IF hook.kind = "before_agent_start"
                           THEN IF sections THEN "prependContext" ELSE "undefined"
                           ELSE IF sections THEN "history" ELSE "no history"]
       \/ \E e \in Errors : HookThrow("session.context", e)
    /\ UNCHANGED <<closureVars, storeVars, hookCalls, hookFrame>>

\* the tools whose execute asks the agent peer a question about the owner
ChatTools == {"honcho_recall", "honcho_analyze"}

\* what evaluating null.chat throws
TypeError == [isError |-> TRUE, name |-> "TypeError", message |-> <<"null">>]

\* honcho_recall, honcho_analyze: execute begins with
\* await moltbotPeer!.chat(query, { target: ownerPeer!, reasoningLevel })
ToolChat(kind) ==
    /\ hook.pc = "idle"
    /\ hookCalls < MaxHookCalls
    /\ hookCalls' = hookCalls + 1
    /\ LET called == [IdleHook EXCEPT !.kind = kind, !.at = PluginState]
       IN  IF moltbotPeer = NoPeer
           THEN hook' = [called EXCEPT !.result = "raised", !.error = TypeError,
                                       !.thrownBy = "moltbotPeer"]
           ELSE \/ hook' = [called EXCEPT !.result = "answer"]
                \/ hook' = [called EXCEPT !.result = "raised", !.error = OtherError,
                                          !.thrownBy = "peer.chat"]
    /\ UNCHANGED <<closureVars, storeVars, hookFrame>>

NextHook ==
    \/ \E kind \in HookKinds, n \in PromptLengths : HookStart(kind, n)
    \/ \E kind \in ChatTools : ToolChat(kind)
    \/ HookInitWorkspace
    \/ HookInitOwner
    \/ HookInitMoltbot
    \/ HookSession
    \/ HookContext

SpecHook == InitHook /\ [][NextHook]_vars

\* ------------------------------------------------------------------------
\* Managed-Section File Merger (spec section 4.4; no code of it is in src/)
\* ------------------------------------------------------------------------
\* tokens of a knowledge file: the fixed header marker of the managed
\* section, the "do not edit" notice, the separator and the "last synced"
\* line that end a section, and the start of a top-level header line
MARKER == "## managed"
NOTICE == "_do not edit_"
RULE == "---"
SYNCED == "_last synced:_"
TOPHEADER == "# "

\* the blank-line separator between static content and the managed section
BlankLine == <<NL, NL>>

\* the first index from i on where s holds tok, or 0
RECURSIVE IndexFrom(_, _, _)
IndexFrom(s, tok, i) ==
    IF i > Len(s) THEN 0
    ELSE IF s[i] = tok THEN i
    ELSE IndexFrom(s, tok, i + 1)

\* header, notice, the fresh content block, separator, timestamp line
ManagedSection(block, timestamp) ==
    <<MARKER, NOTICE>> \o block \o <<RULE, SYNCED, timestamp>>

\* a missing file reads as empty
ReadExisting(file) == IF file = Absent THEN <<>> ELSE file

\* variant: the previous managed section is not removed
StaticContentWhole(existing, keepsRest) == existing

\* what is kept of the existing content: everything before the managed
\* section, which runs from the marker up to the next top-level header or
\* the end of the file. The spec does not say what becomes of the text from
\* that header on: keepsRest tells whether it stays (after the text before
\* the section) or goes with the section
StaticContent(existing, keepsRest) ==
    LET at == IndexFrom(existing, MARKER, 1)
        next == IndexFrom(existing, TOPHEADER, at + 1)
        end == IF next = 0 THEN Len(existing) + 1 ELSE next
    IN  IF at = 0 THEN existing
        ELSE SubSeq(existing, 1, at - 1)
                 \o (IF keepsRest THEN SubSeq(existing, end, Len(existing)) ELSE <<>>)

\* the file that is written
MergeManagedSection(file, block, timestamp, keepsRest) ==
    LET static == StaticContent(ReadExisting(file), keepsRest)
    IN  (IF static # <<>> THEN static \o BlankLine ELSE <<>>)
            \o ManagedSection(block, timestamp)

\* human-written text, content blocks and timestamps that are tried
StaticTexts == SeqsUpTo({"a", NL}, MaxStatic)
Blocks == {<<"c">>, <<"c", "c">>}
PreviousBlocks == {<<>>, <<"b">>}
Timestamps == {"t1", "t2"}
Afterwards == {<<>>, <<TOPHEADER, "a">>}

\* the files that are tried: none, or static text, then possibly a blank
\* line and a managed section of an earlier merge, then possibly a
\* top-level header with text of its own
MergeInputs ==
    [static : StaticTexts, section : {"none", "plain", "separated"},
     previous : PreviousBlocks, after : Afterwards, missing : BOOLEAN,
     block : Blocks, timestamp : {"t2"}, keepsRest : BOOLEAN]

FileOf(in) ==
    IF in.missing THEN Absent
    ELSE in.static
             \o (IF in.section = "separated" THEN BlankLine ELSE <<>>)
             \o (IF in.section = "none" THEN <<>> ELSE ManagedSection(in.previous, "t1"))
             \o in.after

InitMerge ==
    /\ InitEngine
    /\ InitKeyIdle
    /\ InitTurnIdle
    /\ InitInstallIdle
    /\ InitConfigIdle
    /\ InitHookIdle
    /\ mergeIn \in {in \in MergeInputs :
                       /\ in.missing => (in.static = <<>> /\ in.section = "none"
                                         /\ in.previous = <<>> /\ in.after = <<>>)
                       /\ in.section = "none" => in.previous = <<>>}
    /\ merged = [file |-> FileOf(mergeIn), count |-> 0, first |-> Absent]

\* one run of the merger, with the same content block and timestamp
Merge ==
    /\ merged.count < MaxMerges
    /\ LET written == MergeManagedSection(merged.file, mergeIn.block,
                                          mergeIn.timestamp, mergeIn.keepsRest)
       IN  merged' = [file |-> written, count |-> merged.count + 1,
                      first |-> IF merged.count = 0 THEN written ELSE merged.first]
    /\ UNCHANGED <<engineVars, installVars, configVars, hookVars, mergeIn>>

NextMerge == Merge

SpecMerge == InitMerge /\ [][NextMerge]_vars

TypeOK ==
    /\ \A t \in Threads : Len(log[t]) <= MaxLog
    /\ windowFailures \in 0..MaxWindowFailures
    /\ \A k \in SessionKeys : sessionMeta[k] \in {Undefined} \cup (0..MaxLog)

\* ------------------------------------------------------------------------
\* Properties of the sync engine
\* ------------------------------------------------------------------------
Extractable(m) == TurnText(m) # <<>>

AddMessagesCalls(rn) == {i \in DOMAIN rn.calls : rn.calls[i].op = "session.addMessages"}

WatermarkWrites(rn) == {i \in DOMAIN rn.calls : rn.calls[i].op = "session.setMetadata"}

AllCallsOk(rn) == \A i \in DOMAIN rn.calls : rn.calls[i].ok

\* C1: a sync run that finds a persisted watermark w <= |L| and whose remote
\* calls all succeed submits exactly extractMessages(L[w..|L|)), in log order
\* and in one addMessages call (none when that is empty), and leaves the
\* persisted lastSavedIndex equal to |L|.
C1_SyncSubmitsDelta ==
    \A r \in RunIds :
        LET rn == runs[r]
            n == Len(rn.messages)
        IN  (rn.outcome = "ok" /\ rn.w0 # Undefined /\ rn.w0 <= n) =>
                /\ AllCallsOk(rn)
                /\ rn.sent = extractMessages(SubSeq(rn.messages, rn.w0 + 1, n),
                                             OWNER_ID, MOLTBOT_ID)
                /\ Cardinality(AddMessagesCalls(rn)) = IF rn.sent = <<>> THEN 0 ELSE 1
                /\ sessionMeta[KeyOf(rn.thread)] = n

\* a run from watermark 1 over a log of 3 turns whose delta holds one turn
\* that extracts to nothing and one that is stored
C1_Witness ==
    \E r \in RunIds :
        /\ runs[r].outcome = "ok"
        /\ runs[r].w0 = 1
        /\ Len(runs[r].messages) = 3
        /\ Len(runs[r].sent) = 1
        /\ sessionMeta[Key(r)] = 3

\* C2: a run writes lastSavedIndex = |L| for a non-empty extracted delta only
\* right after its addMessages call has returned; a failed addMessages is the
\* run's last remote call and leaves the persisted watermark as it was.
C2_CommitPrecedesAdvance ==
    \A r \in RunIds :
        LET rn == runs[r]
            c == rn.calls
        IN  /\ \A i \in WatermarkWrites(rn) :
                   (c[i].arg = Len(rn.messages) /\ rn.extracted # <<>>) =>
                       /\ i > 1
                       /\ c[i - 1].op = "session.addMessages"
                       /\ c[i - 1].ok
            /\ \A i \in AddMessagesCalls(rn) :
                   ~c[i].ok => /\ i = Len(c)
                               /\ sessionMeta[KeyOf(rn.thread)] = c[i].wm

\* a run whose addMessages threw over a delta of two stored turns
C2_Witness ==
    \E r \in RunIds :
        /\ runs[r].outcome = "error"
        /\ Len(runs[r].extracted) = 2
        /\ runs[r].calls[Len(runs[r].calls)].op = "session.addMessages"
        /\ sessionMeta[Key(r)] = runs[r].lastSavedIndex

\* the persisted watermark of thread t
Watermark(t) == sessionMeta[KeyOf(t)]

\* C3 (as claimed): in every reachable state, first-time sessions included,
\* every turn below the persisted watermark that extracts to a non-empty entry
\* has been submitted to the thread's session.
C3_CommittedPrefix ==
    \A t \in Threads : \A i \in 1..Len(log[t]) :
        (i <= Watermark(t) /\ Extractable(log[t][i])) => commits[t][i] >= 1

\* C3 (amended): every turn at or above the index the session was bootstrapped
\* with and below the persisted watermark that extracts to a non-empty entry
\* has been submitted to the thread's session.
C3_CommittedSinceBootstrap ==
    \A t \in Threads : \A i \in 1..Len(log[t]) :
        (bootIndex[t] < i /\ i <= Watermark(t) /\ Extractable(log[t][i])) =>
            commits[t][i] >= 1

\* a session bootstrapped at index 1 (turn 0 skipped) whose watermark a later
\* run advanced to 3 after submitting the stored turn at index 2
C3_Witness ==
    \E t \in Threads :
        /\ bootIndex[t] = 1
        /\ Watermark(t) = 3
        /\ Len(log[t]) = 3
        /\ Extractable(log[t][3])
        /\ commits[t][3] = 1
        /\ \E r \in RunIds : runs[r].w0 = 1 /\ runs[r].outcome = "ok"

\* C4: while no watermark write has failed after a successful submission,
\* every turn is held by at most one addMessages submission, however many
\* events are delivered and whichever other remote calls fail.
C4_AtMostOneCommit ==
    windowFailures = 0 =>
        \A t \in Threads : \A i \in DOMAIN commits[t] : commits[t][i] <= 1

\* three stored turns committed by at least two runs, the last of which
\* followed a failed run
C4_Witness ==
    \E t \in Threads :
        /\ windowFailures = 0
        /\ bootIndex[t] = 0
        /\ \A i \in 1..3 : commits[t][i] = 1
        /\ lastRun[t].outcome = "ok"
        /\ lastRun[t].from >= 1
        /\ \E r \in RunIds : runs[r].outcome = "ok" /\ runs[r].w0 = lastRun[t].from

\* the entries of the delta the last finished run of t had extracted
LastDelta(t) ==
    extractMessages(SubSeq(log[t], lastRun[t].from + 1, lastRun[t].len),
                    OWNER_ID, MOLTBOT_ID)

IsPrefix(s, u) == Len(s) <= Len(u) /\ SubSeq(u, 1, Len(s)) = s

\* C5: after a run whose addMessages succeeded and whose watermark write then
\* failed, the persisted watermark has its old value, and the next sync run
\* takes its delta from that old watermark and, once its addMessages has
\* returned, has submitted again every entry the failed run had submitted.
C5_AtLeastOnceWindow ==
    \A t \in Threads :
        lastRun[t].window =>
            /\ (\A r \in RunIds : ~(InFlight(r) /\ runs[r].thread = t)) =>
                   Watermark(t) = lastRun[t].from
            /\ \A r \in RunIds :
                   (InFlight(r) /\ runs[r].thread = t) =>
                       /\ runs[r].pc \in {"add_peers", "add_messages", "set_meta"} =>
                              runs[r].lastSavedIndex = lastRun[t].from
                       /\ runs[r].pc # "skip_meta"
                       /\ runs[r].pc = "set_meta" =>
                              /\ IsPrefix(LastDelta(t), runs[r].sent)
                              /\ \A i \in (lastRun[t].from + 1)..lastRun[t].len :
                                     Extractable(log[t][i]) => commits[t][i] >= 2

\* the run after the failed one has resubmitted, over an extended log
C5_Witness ==
    \E r \in RunIds :
        LET t == runs[r].thread
        IN  /\ lastRun[t].window
            /\ runs[r].pc = "set_meta"
            /\ Len(runs[r].messages) > lastRun[t].len
            /\ Len(LastDelta(t)) = 2
            /\ Len(sessionMessages[KeyOf(t)]) = 2 + Len(runs[r].sent)

\* run r is a sync run of the log its thread's last finished sync run completed with
SameLogAgain(r) ==
    /\ InFlight(r)
    /\ lastRun[runs[r].thread].outcome = "ok"
    /\ lastRun[runs[r].thread].len = Len(runs[r].messages)

\* C6: a sync run with the log L that the previous sync run of the thread has
\* completed successfully with makes no addMessages call and leaves the
\* session's messages and persisted watermark unchanged, whether the first
\* run found an existing session or a first-time one.
C6_IdempotentSameLog ==
    [][\A r \in RunIds :
          SameLogAgain(r) =>
              /\ sessionMeta'[Key(r)] = sessionMeta[Key(r)]
              /\ sessionMessages'[Key(r)] = sessionMessages[Key(r)]
              /\ AddMessagesCalls(runs'[r]) = {}]_vars

\* the second run over the same three turns, two of them stored by the first
\* run on a first-time session, has returned at the length check
C6_Witness ==
    \E r \in RunIds :
        /\ runs[r].outcome = "ok"
        /\ Len(runs[r].messages) = 3
        /\ runs[r].w0 = 3
        /\ runs[r].calls[Len(runs[r].calls)].op = "session.addPeers"
        /\ bootIndex[runs[r].thread] = 1
        /\ Len(sessionMessages[Key(r)]) = 2

\* C7: when a sync run has completed, every turn of its log that was
\* appended after the thread's first agent_end event and extracts to a
\* non-empty entry has been submitted at least once (a run submits nothing
\* below the watermark it leaves, so no later run makes up for a miss).
C7_NoSilentDrop ==
    \A r \in RunIds :
        LET t == runs[r].thread
        IN  (runs[r].outcome = "ok" /\ firstEventLen[t] # Undefined) =>
                \A i \in (firstEventLen[t] + 1)..Len(runs[r].messages) :
                    Extractable(runs[r].messages[i]) => commits[t][i] >= 1

\* C8: the persisted watermark of a session never decreases, whichever remote
\* calls fail (events of a thread are handled one at a time).
C8_WatermarkMonotonic ==
    [][\A k \in SessionKeys : sessionMeta'[k] >= sessionMeta[k]]_vars

\* the watermark has been bootstrapped and then advanced twice, the second
\* time after a run that failed
C8_Witness ==
    \E r \in RunIds :
        LET t == runs[r].thread
        IN  /\ bootIndex[t] = 0
            /\ runs[r].outcome = "ok"
            /\ runs[r].w0 = 1
            /\ Watermark(t) = 3
            /\ windowFailures = 1

\* C9: the persisted watermark is at most the length of the thread's log, and
\* every value a run writes is max(0, n - 2) or n for the length n of the log
\* its event delivered.
C9_WatermarkWithinLog ==
    /\ \A t \in Threads : Watermark(t) <= Len(log[t])
    /\ \A r \in RunIds : \A i \in WatermarkWrites(runs[r]) :
           LET n == Len(runs[r].messages)
           IN  runs[r].calls[i].arg \in {IF n >= 2 THEN n - 2 ELSE 0, n}

\* a first-time run has written max(0, 3 - 2) and then 3, the log's length
C9_Witness ==
    \E r \in RunIds :
        /\ runs[r].outcome = "ok"
        /\ Cardinality(WatermarkWrites(runs[r])) = 2
        /\ Watermark(runs[r].thread) = 3
        /\ Len(log[runs[r].thread]) = 3

\* C10: an event with success = false or with a missing or empty message list
\* starts nothing: the handler has returned without one remote call.
C10_PreconditionFrame ==
    \A r \in RunIds :
        ~(runs[r].success /\ runs[r].hasMessages /\ Len(runs[r].messages) > 0) =>
            /\ ~InFlight(r)
            /\ runs[r].calls = <<>>

\* a failed turn batch with two turns was delivered before anything was set up
C10_Witness ==
    \E r \in RunIds :
        /\ runs[r].outcome = "skipped"
        /\ ~runs[r].success
        /\ Len(runs[r].messages) = 2
        /\ ~workspace
        /\ \A k \in SessionKeys : ~sessionExists[k]

\* C11: a run that completes on a non-empty delta L[w..|L|) which extracts to
\* nothing has called no addMessages, has submitted nothing, and its last
\* call wrote the watermark |L|, which is the persisted value: the delta of
\* the same log is then empty.
C11_EmptyExtractionAdvances ==
    \A r \in RunIds :
        LET rn == runs[r]
            n == Len(rn.messages)
            w == rn.lastSavedIndex
        IN  (rn.outcome = "ok" /\ w < n
                /\ \A i \in (w + 1)..n : ~Extractable(rn.messages[i])) =>
                /\ AddMessagesCalls(rn) = {}
                /\ rn.sent = <<>>
                /\ rn.calls[Len(rn.calls)].op = "session.setMetadata"
                /\ rn.calls[Len(rn.calls)].arg = n
                /\ Watermark(rn.thread) = n
                /\ SubSeq(rn.messages, Watermark(rn.thread) + 1, n) = <<>>

\* a run found watermark 1 under a log whose turns 2 and 3 hold tool calls
\* only, and has moved the watermark to 3
C11_Witness ==
    \E r \in RunIds :
        /\ runs[r].outcome = "ok"
        /\ runs[r].w0 = 1
        /\ Len(runs[r].messages) = 3
        /\ runs[r].messages[2] = ToolOnlyTurn
        /\ runs[r].messages[3] = ToolOnlyTurn
        /\ Watermark(runs[r].thread) = 3
        /\ sessionMessages[KeyOf(runs[r].thread)] = <<>>

PeersRegistered(rn) ==
    /\ \E i \in DOMAIN rn.calls : rn.calls[i].op = "session.addPeers" /\ rn.calls[i].ok
    /\ sessionPeers[KeyOf(rn.thread)] = {OWNER_ID, MOLTBOT_ID}

PassedPreconditions(rn) == rn.outcome \in {"ok", "error"}

BeforeAddPeers(rn, i) ==
    \/ rn.calls[i].op \in {"honcho.setMetadata", "honcho.peer", "honcho.session",
                           "session.getMetadata"}
    \/ rn.calls[i].op = "session.setMetadata" /\
          \A j \in 1..(i - 1) : rn.calls[j].op # "session.addPeers"

C13_FailureLeavesWatermark ==
    \A r \in RunIds :
        runs[r].outcome = "error" => sessionMeta[KeyOf(runs[r].thread)] = runs[r].w0

\* C13: after a run in which a remote call threw, the persisted watermark is
\* the one the session had when the run began, or, when the session had none
\* and the run's bootstrap write went through before the throw, max(0, n - 2).
C13_FailureLeavesWatermarkOrBootstrap ==
    \A r \in RunIds :
        LET rn == runs[r]
            n == Len(rn.messages)
            now == sessionMeta[KeyOf(rn.thread)]
        IN  rn.outcome = "error" =>
                \/ now = rn.w0
                \/ /\ rn.w0 = Undefined
                   /\ now = (IF n >= 2 THEN n - 2 ELSE 0)
                   /\ \E i \in DOMAIN rn.calls :
                         /\ rn.calls[i].op = "session.setMetadata"
                         /\ rn.calls[i].ok

\* a first-time run on three turns wrote the bootstrap watermark 1 and then
\* failed in addMessages
C13_Witness ==
    \E r \in RunIds :
        LET rn == runs[r]
        IN  /\ rn.outcome = "error"
            /\ rn.w0 = Undefined
            /\ Len(rn.messages) = 3
            /\ rn.calls[Len(rn.calls)].op = "session.addMessages"
            /\ sessionMeta[KeyOf(rn.thread)] = 1

\* C14: no invocation of the agent_end handler ends with an exception leaving
\* it, whichever remote call threw; a failed run poisons nothing the plugin
\* keeps (initialized is set only with both peer handles); and a run that
\* completes while another thread's last run has failed has submitted
\* its whole delta and left its own thread's watermark at |L|.
C14_FailureIsolation ==
    /\ \A r \in RunIds : runs[r].outcome # "raised"
    /\ \A t \in Threads : lastRun[t].outcome # "raised"
    /\ initialized => (ownerPeer = OWNER_ID /\ moltbotPeer = MOLTBOT_ID)
    /\ \A r \in RunIds :
           LET rn == runs[r]
               n == Len(rn.messages)
           IN  (/\ rn.outcome = "ok"
                /\ \E u \in Threads \ {rn.thread} : lastRun[u].outcome = "error")
                   => /\ rn.sent = extractMessages(
                                      SubSeq(rn.messages, rn.lastSavedIndex + 1, n),
                                      OWNER_ID, MOLTBOT_ID)
                      /\ sessionMeta[KeyOf(rn.thread)] = n

\* the last run of t1 failed before anything was persisted for t1, and a later
\* run of t2 has stored its turn and advanced t2's watermark
C14_Witness ==
    \E r \in RunIds :
        /\ lastRun["t1"].outcome = "error"
        /\ sessionMeta[KeyOf("t1")] = Undefined
        /\ runs[r].thread = "t2"
        /\ runs[r].outcome = "ok"
        /\ Len(runs[r].sent) = 1
        /\ sessionMessages[KeyOf("t2")] = runs[r].sent
        /\ sessionMeta[KeyOf("t2")] = 1

\* two runs of one thread were delivered the same log and went on from the
\* same watermark: the second read it before the first advanced it
SameDelta(r1, r2) ==
    /\ r1 # r2
    /\ runs[r1].thread = runs[r2].thread
    /\ runs[r1].messages = runs[r2].messages
    /\ runs[r1].lastSavedIndex = runs[r2].lastSavedIndex
    /\ runs[r1].lastSavedIndex # Undefined
    /\ runs[r1].lastSavedIndex < Len(runs[r1].messages)

\* C15: when two runs of one thread overlap so that both go on from the same
\* watermark w under the same log and both complete, each has submitted
\* extractMessages(L[w..|L|)): every extractable turn of that delta has been
\* submitted at least twice.
C15_LostUpdateDoubleCommit ==
    \A r1, r2 \in RunIds :
        (SameDelta(r1, r2) /\ runs[r1].outcome = "ok" /\ runs[r2].outcome = "ok") =>
            LET rn == runs[r1]
                n == Len(rn.messages)
                delta == SubSeq(rn.messages, rn.lastSavedIndex + 1, n)
            IN  /\ runs[r1].sent = extractMessages(delta, OWNER_ID, MOLTBOT_ID)
                /\ runs[r2].sent = runs[r1].sent
                /\ \A i \in (rn.lastSavedIndex + 1)..n :
                      Extractable(rn.messages[i]) => commits[rn.thread][i] >= 2

\* both runs have completed without a failure, and the session holds the one
\* turn of the log twice
C15_Witness ==
    /\ SameDelta(1, 2)
    /\ runs[1].outcome = "ok"
    /\ runs[2].outcome = "ok"
    /\ AllCallsOk(runs[1])
    /\ AllCallsOk(runs[2])
    /\ Len(runs[1].messages) = 1
    /\ sessionMessages[KeyOf(runs[1].thread)] = runs[1].sent \o runs[2].sent
    /\ Len(sessionMessages[KeyOf(runs[1].thread)]) = 2

\* the body of the memory block in turnIn has no closing tag of its own
PlainBody ==
    \E i \in 1..Len(turnIn.content.text) :
        /\ turnIn.content.text[i] = CLOSE
        /\ \A j \in 1..Len(turnIn.content.text) : turnIn.content.text[j] = CLOSE => j = i

NoBlockPart(entries) ==
    \A e \in 1..Len(entries) :
        \A i \in 1..Len(entries[e].content) : entries[e].content[i] \notin BlockParts

\* C16: for every human turn that holds an injected memory block (opening
\* tag, body, closing tag, comment), wherever it stands and whatever its
\* body, the entry submitted for the turn holds no part of the block.
C16_SanitizedHumanTurn ==
    (turnOut.called /\ turnIn.role = "user") => NoBlockPart(turnOut.entries)

\* C17: for every turn of role human or agent that holds an injected memory
\* block (here one whose body is plain text), the entry submitted for the
\* turn holds no part of the block.
C17_NoMarkupRestored ==
    (turnOut.called /\ turnIn.role \in {"user", "assistant"} /\ PlainBody)
        => NoBlockPart(turnOut.entries)

\* C18: buildSessionKey returns key + "-" + provider, an absent key being
\* "default" and an absent provider "unknown", with every character that is
\* no ASCII letter, digit or hyphen replaced by "-"; the result holds
\* letters, digits and hyphens only.
C18_SessionKeyForm ==
    keyResult # NotCalled =>
        LET key == IF keyCtx = NoCtx \/ keyCtx.sessionKey = Absent
                   THEN <<"d", "e", "f", "a", "u", "l", "t">> ELSE keyCtx.sessionKey
            prov == IF keyCtx = NoCtx \/ keyCtx.messageProvider = Absent
                    THEN <<"u", "n", "k", "n", "o", "w", "n">> ELSE keyCtx.messageProvider
            joined == key \o <<"-">> \o prov
            allowed == Letters \cup Digits \cup {"-"}
        IN  /\ Len(keyResult) = Len(joined)
            /\ \A i \in 1..Len(joined) :
                  keyResult[i] = IF joined[i] \in allowed THEN joined[i] ELSE "-"
            /\ \A i \in 1..Len(keyResult) : keyResult[i] \in allowed

\* a context without provider whose key holds a colon and an underscore
C18_Witness ==
    /\ keyCtx = [defined |-> TRUE, sessionKey |-> <<":", "_">>, messageProvider |-> Absent]
    /\ keyResult = <<"-", "-", "-", "u", "n", "k", "n", "o", "w", "n">>

\* nothing at a legacy path has been moved, renamed or removed since main
\* began, and archive/ is as it was
Untouched ==
    /\ \A it \in Items : fileExists(it) <=> install.before[it] # "absent"
    /\ \A it \in Items \ docsToSync : fs[it] = install.before[it]
    /\ archive = install.archiveBefore
    /\ archiveDir = install.archiveDirBefore

\* C19: in the scripts that gate the cleanup on the migration (the archiving
\* one and install.js), as long as the migration has not succeeded, and for
\* good when HONCHO_API_KEY is unset or a remote call threw, no legacy file
\* or directory has been moved, renamed or removed and archive/ is untouched.
C19_NoArchivalWithoutSubmission ==
    (/\ script \in {"archive", "remove"}
     /\ install.pc # "idle" \/ install.outcome # "none"
     /\ install.migration # "succeeded")
        => Untouched

\* the archiving script had its owner batch accepted and its self batch
\* thrown: USER.md and memory/ are where they were, archive/ does not exist
C19_Witness ==
    /\ script = "archive"
    /\ install.outcome = "failed"
    /\ install.migration = "failed"
    /\ facts["USER.md"] = 1
    /\ facts["SOUL.md"] = 0
    /\ "SOUL.md" \in install.conclusions
    /\ fs["USER.md"] = "legacy"
    /\ fs["memory"] = "legacy"
    /\ ~archiveDir

\* C20: once a run has looked at the legacy paths, what it found at each is
\* still at that path, or held by an entry of archive/, or was accepted by
\* the store as a fact; files that were unreadable, blank or no regular
\* files included.
C20_NoLoss ==
    \A it \in Items :
        (install.collected /\ install.found[it] # "absent") =>
            \/ fs[it] = install.found[it]
            \/ \E e \in archive : e.from = it /\ e.holds = install.found[it]
            \/ facts[it] >= 1

\* the text the run found at a template target when main() began is held
\* by an entry of archive/
ArchivedOriginal(it) ==
    \E e \in archive : e.from = it /\ e.holds = install.before[it]

\* the text the run found at a template target when main() began was read
\* by the collection loops and accepted by the store
MigratedOriginal(it) ==
    /\ install.collected
    /\ install.found[it] = install.before[it]
    /\ facts[it] >= 1

\* C21: in an install run no workspace document is overwritten with the
\* plugin template before its original content has been migrated and
\* archived (the steps run in the order migrate, archive, template sync).
C21_ArchiveBeforeOverwrite ==
    \A it \in docsToSync :
        (install.before[it] = "legacy" /\ fs[it] = "template") =>
            /\ MigratedOriginal(it)
            /\ ArchivedOriginal(it)

\* const filesToArchive / dirsToArchive (the names this model follows)
filesToArchive == {"USER.md", "SOUL.md"}
dirsToArchive == {"memory"}

\* the run got through its remote calls and through its cleanup loops
MigratedAndCleaned ==
    /\ install.outcome = "complete"
    /\ install.migration = "succeeded"

\* C22: after a successful migration, every legacy file and the memory/
\* directory that existed in the workspace is absent from its original path
\* and present, with its content, in an entry this run added to archive/.
C22_ArchivedNotDeleted ==
    MigratedAndCleaned =>
        \A it \in filesToArchive \cup dirsToArchive :
            install.before[it] # "absent" =>
                /\ fs[it] = "absent"
                /\ \E e \in archive \ install.archiveBefore :
                       e.from = it /\ e.holds = install.before[it]

\* the names under archive/ that begin with name
Suffixes(entries, name) == {e.name[2] : e \in {x \in entries : x.name[1] = name}}

\* C23: every entry that was in archive/ before a run is still there and
\* unchanged, no two entries share a name, and an item relocated while its
\* name was taken is stored under the first free one of name-<timestamp>,
\* name-<timestamp>-1, name-<timestamp>-2, ...
C23_ArchiveEntriesKept ==
    (install.pc # "idle" \/ install.outcome # "none") =>
        /\ install.archiveBefore \subseteq archive
        /\ \A e, x \in archive : e.name = x.name => e = x
        /\ \A e \in archive \ install.archiveBefore :
               \A j \in 0..(e.name[2] - 1) : j \in Suffixes(archive, e.name[1])

\* the items of the script's cleanup lists
CleanupItems(sc) == {CleanupList(sc)[k] : k \in 1..Len(CleanupList(sc))}

\* C24: when relocating one legacy item has failed (the rename threw, or
\* the original path still exists afterwards), the run ends with a failure
\* reported for that item and with every file and directory of the archive
\* list processed.
C24_PartialFailureContinues ==
    (/\ script = "archive"
     /\ install.pc = "idle"
     /\ install.failed # {})
        => /\ install.failed \subseteq install.reported
           /\ install.visited = CleanupItems(script)

\* the greatest integer that is not above h / 2
IntegerPart(h) ==
    CHOOSE n \in (-(1440 + MaxOver + 2))..(1440 + MaxOver + 2) :
        2 * n <= h /\ h < 2 * (n + 1)

\* C25: for every configured syncFrequency, parse returns an integer in
\* [1, 1440]: a number that is not NaN is floored and then clamped to that
\* range (Infinity gives 1440, -Infinity gives 1); a missing, non-numeric
\* or NaN value gives the default 60.
C25_SyncFrequencyClamped ==
    reg.pc = "parsed" =>
        LET v == pluginConfig.syncFrequency
            out == reg.cfg.syncFrequency
            n == out.h \div 2
        IN  /\ out.type = "number" /\ out.is = "finite"
            /\ out.h = 2 * n
            /\ n \in 1..1440
            /\ (v.type = "number" /\ v.is = "finite") =>
                   n = IF IntegerPart(v.h) < 1 THEN 1
                       ELSE IF IntegerPart(v.h) > 1440 THEN 1440
                       ELSE IntegerPart(v.h)
            /\ (v.type = "number" /\ v.is = "Infinity") => n = 1440
            /\ (v.type = "number" /\ v.is = "-Infinity") => n = 1
            /\ (v.type # "number" \/ v.is = "NaN") => n = 60

\* parse was given syncFrequency 3.5 and returned 3
C25_Witness ==
    /\ reg.pc = "parsed"
    /\ pluginConfig.syncFrequency = Finite(7)
    /\ reg.cfg.syncFrequency = Finite(6)

\* no key is configured and none is in the environment
ApiKeyMissing ==
    /\ ~(typeof(pluginConfig.apiKey) = "string" /\ Len(pluginConfig.apiKey.s) > 0)
    /\ env.HONCHO_API_KEY \in {Absent, <<>>}

\* the configured apiKey is ${V} and V is not set in the environment
UnsetReference ==
    /\ pluginConfig.apiKey = Str(<<"$", "{", "V", "}">>)
    /\ env.V = Absent

\* C26: when the API key is missing, or the configured apiKey refers with
\* ${VAR} to an environment variable that is not set, register completes
\* with a warning and with every hook, tool and command registered; it does
\* not throw.
C26_ConfigFailureNotFatal ==
    (reg.pc # "idle" /\ (ApiKeyMissing \/ UnsetReference)) =>
        /\ reg.pc = "loaded"
        /\ reg.warned
        /\ reg.hooks = Hooks
        /\ reg.tools = Tools
        /\ reg.cli

\* the context query of the finished call threw an Error that is named
\* NotFoundError or whose message says "not found" in any case
ContextNotFound ==
    /\ hook.pc = "idle"
    /\ hook.thrownBy = "session.context"
    /\ hook.error.isError
    /\ \/ hook.error.name = "NotFoundError"
       \/ hook.error.message \in {<<"Session", "not", "found">>, <<"404", "Not", "Found">>}

\* C27: when the session context query fails with a not-found error,
\* before_agent_start returns without a prependContext and without a
\* warning, the honcho_session tool returns its "new session" text instead
\* of raising, and the plugin's closure and the store are as they were when
\* the query was made.
C27_NotFoundIsFirstUse ==
    ContextNotFound =>
        /\ hook.kind = "before_agent_start" => (hook.result = "undefined" /\ ~hook.warned)
        /\ hook.kind = "honcho_session" => hook.result = "new session"
        /\ PluginState = hook.at

\* the query of before_agent_start threw an Error named Error with the
\* message "404 Not Found", on a session the handler had just created
C27_Witness ==
    /\ ContextNotFound
    /\ hook.kind = "before_agent_start"
    /\ hook.error.name = "Error"
    /\ hook.error.message = <<"404", "Not", "Found">>
    /\ sessionExists[KeyOf("t1")]
    /\ hook.result = "undefined"

\* the text of the starting file that comes before its managed section
StaticBefore ==
    mergeIn.static \o (IF mergeIn.section = "separated" THEN BlankLine ELSE <<>>)

\* C28: for every file that consists of static text A followed by a previous
\* managed section B, merging fresh content C writes a file that begins with
\* A verbatim, has nothing but the blank-line separator between A and the
\* managed-section header, and holds one managed section, which contains C
\* and nothing of B (neither its content nor its timestamp).
C28_MergePreservesStatic ==
    (/\ merged.count = 1
     /\ ~mergeIn.missing
     /\ mergeIn.section # "none"
     /\ mergeIn.after = <<>>)
        => LET A == StaticBefore
               C == mergeIn.block
               out == merged.file
               h == IndexFrom(out, MARKER, 1)
           IN  /\ h # 0
               /\ SubSeq(out, 1, Len(A)) = A
               /\ \A i \in (Len(A) + 1)..(h - 1) : out[i] = NL
               /\ IndexFrom(out, MARKER, h + 1) = 0
               /\ \E i \in h..Len(out) : SubSeq(out, i, i + Len(C) - 1) = C
               /\ \A i \in h..Len(out) : out[i] \notin {"b", "t1"}

\* "a" followed by a section holding "b" was merged with "c"
C28_Witness ==
    /\ merged.count = 1
    /\ mergeIn.static = <<"a">>
    /\ mergeIn.section = "plain"
    /\ mergeIn.previous = <<"b">>
    /\ mergeIn.after = <<>>
    /\ merged.file = <<"a", NL, NL, MARKER, NOTICE, "c", RULE, SYNCED, "t2">>

\* the text of a file that is outside its managed section: what comes
\* before the marker and what comes from the next top-level header on
OutsideManaged(file) ==
    LET at == IndexFrom(file, MARKER, 1)
        next == IndexFrom(file, TOPHEADER, at + 1)
    IN  IF at = 0 THEN file
        ELSE SubSeq(file, 1, at - 1)
                 \o (IF next = 0 THEN <<>> ELSE SubSeq(file, next, Len(file)))

\* a text without its line breaks
RECURSIVE WithoutBreaks(_)
WithoutBreaks(s) ==
    IF s = <<>> THEN <<>>
    ELSE IF Head(s) = NL THEN WithoutBreaks(Tail(s))
    ELSE <<Head(s)>> \o WithoutBreaks(Tail(s))

\* the second merge wrote what the first had written
MergedTwiceAsOnce == merged.count = 2 => merged.file = merged.first

\* what the file held outside its managed section is still there, in
\* order (line breaks apart)
OutsideKept ==
    merged.count >= 1 =>
        WithoutBreaks(OutsideManaged(merged.file))
            = WithoutBreaks(OutsideManaged(ReadExisting(FileOf(mergeIn))))

\* C29: merging the same content block with the same timestamp twice
\* writes the same file as merging it once (separators and sections do not
\* pile up), and after any number of merges the text outside the managed
\* section, before it and from the next top-level header on, is unchanged.
C29_MergeIdempotentLossless == MergedTwiceAsOnce /\ OutsideKept

\* C30: a sync run that finds no stored watermark over a log of n turns
\* writes lastSavedIndex = max(0, n - 2) before it submits anything, and,
\* when it succeeds, has submitted exactly the extractable entries of the
\* last min(2, n) turns; no turn below the index a session was bootstrapped
\* with is ever submitted, by that run or by a later one.
C30_BootstrapPolicy ==
    /\ \A r \in RunIds :
           LET rn == runs[r]
               n == Len(rn.messages)
               start == IF n > 2 THEN n - 2 ELSE 0
               writes == WatermarkWrites(rn)
           IN  (rn.w0 = Undefined /\ writes # {}) =>
                   /\ \E i \in writes :
                          /\ rn.calls[i].arg = start
                          /\ \A j \in writes \cup AddMessagesCalls(rn) : i <= j
                   /\ rn.outcome = "ok" =>
                          rn.sent = extractMessages(SubSeq(rn.messages, start + 1, n),
                                                    OWNER_ID, MOLTBOT_ID)
    /\ \A t \in Threads : \A i \in 1..Len(log[t]) :
           (bootIndex[t] # Undefined /\ i <= bootIndex[t]) => commits[t][i] = 0

\* a first run over three turns wrote 1, submitted the last two turns, and
\* the first turn has never been submitted
C30_Witness ==
    \E r \in RunIds :
        /\ runs[r].outcome = "ok"
        /\ runs[r].w0 = Undefined
        /\ Len(runs[r].messages) = 3
        /\ Len(runs[r].sent) = 2
        /\ bootIndex[runs[r].thread] = 1
        /\ Extractable(log[runs[r].thread][1])
        /\ commits[runs[r].thread][1] = 0

\* a "text"-typed block whose text is a string
IsTextBlock(b) == b.type = "text" /\ b.isString

\* texts joined by line breaks
RECURSIVE NewlineJoin(_)
NewlineJoin(texts) ==
    IF texts = <<>> THEN <<>>
    ELSE IF Len(texts) = 1 THEN texts[1]
    ELSE texts[1] \o <<NL>> \o NewlineJoin(Tail(texts))

\* the reference text of a turn: the string content, or the newline-join of
\* the text of its text blocks; cleaned for user turns only; trimmed
ReferenceText(m) ==
    LET textBlocks == SelectSeq(m.content.blocks, IsTextBlock)
        raw == IF m.content.kind = "string" THEN m.content.text
               ELSE IF m.content.kind = "blocks"
               THEN NewlineJoin([i \in 1..Len(textBlocks) |-> textBlocks[i].text])
               ELSE <<>>
    IN  Trim(IF m.role = "user" THEN cleanMessageContent(raw) ELSE raw)

\* C31: for every sequence of turns, extractMessages returns, in the order
\* of the turns, one (peer, text) entry for exactly the turns whose role is
\* user or assistant and whose reference text is not empty; the entry holds
\* that text, with the owner peer for a user turn and the agent peer for an
\* assistant turn.
C31_ExtractEqualsReference ==
    turnOut.called =>
        LET kept == {i \in 1..Len(turnIn) :
                        /\ turnIn[i].role \in {"user", "assistant"}
                        /\ ReferenceText(turnIn[i]) # <<>>}
            out == turnOut.entries
        IN  /\ Len(out) = Cardinality(kept)
            /\ \A i \in kept :
                   out[Cardinality({j \in kept : j <= i})] =
                       [peerId |-> IF turnIn[i].role = "user" THEN OWNER_ID ELSE MOLTBOT_ID,
                        content |-> ReferenceText(turnIn[i])]

\* an assistant turn with markup in its string and a user turn of two text
\* blocks around a tool block, extracted in that order
C31_Witness ==
    /\ turnOut.called
    /\ Len(turnIn) = 2
    /\ turnOut.entries =
           <<[peerId |-> MOLTBOT_ID, content |-> <<OPEN, "k", CLOSE, SP, "o">>],
             [peerId |-> OWNER_ID, content |-> <<"h", NL, "i">>]>>

\* a failed run that had read the session's metadata leaves the persisted
\* watermark at the index its delta began at: the next run slices from there
RetriesSameDelta ==
    \A r \in SerialRuns :
        (runs[r].outcome = "error" /\ runs[r].lastSavedIndex # Undefined) =>
            LastSavedIndexOf(sessionMeta[Key(r)]) = runs[r].lastSavedIndex

CleanString(s) == s # Absent /\ \A i \in DOMAIN s : s[i] \in Letters \cup Digits

\* a context whose sessionKey and messageProvider are such strings
CleanContext(ctx) ==
    ctx.defined /\ CleanString(ctx.sessionKey) /\ CleanString(ctx.messageProvider)

\* the contexts of this model that are such
CleanContexts == {ctx \in Contexts : CleanContext(ctx)}

\* C33: the key built for a (sessionKey, messageProvider) pair of letters and
\* digits only is the key of no other such pair, and the pair can be read
\* back from it around its one hyphen: two such conversations have different
\* remote sessions and watermarks.
C33_CleanKeysDistinct ==
    (keyResult # NotCalled /\ CleanContext(keyCtx)) =>
        /\ \A other \in CleanContexts \ {keyCtx} :
               buildSessionKey(other) # keyResult
        /\ \E i \in 1..Len(keyResult) :
               /\ keyResult[i] = "-"
               /\ \A j \in 1..Len(keyResult) : keyResult[j] = "-" => j = i
               /\ SubSeq(keyResult, 1, i - 1) = keyCtx.sessionKey
               /\ SubSeq(keyResult, i + 1, Len(keyResult)) = keyCtx.messageProvider

\* the key of sessionKey "a7" and messageProvider "Z"
C33_Witness ==
    /\ keyCtx = [defined |-> TRUE, sessionKey |-> <<"a", "7">>, messageProvider |-> <<"Z">>]
    /\ keyResult = <<"a", "7", "-", "Z">>

\* the basenames whose facts are the agent's conclusions about itself
SelfNames == {"SOUL.md", "AGENTS.md", "TOOLS.md", "BOOTSTRAP.md", "HEARTBEAT.md"}

\* the facts collected by the run in progress, by the group of their basename
AboutSelf == {it \in install.conclusions : BaseName(it) \in SelfNames}
AboutOwner == {it \in install.conclusions : BaseName(it) \notin SelfNames}

\* facts' counts one more submission of each fact of group, and nothing else
Submits(group) ==
    facts' = [it \in Items |-> IF it \in group THEN facts[it] + 1 ELSE facts[it]]

\* C34: facts are submitted only by the two batch calls; the batch of
\* conclusions about the owner holds exactly the collected facts whose
\* basename is not one of SOUL.md, AGENTS.md, TOOLS.md, BOOTSTRAP.md,
\* HEARTBEAT.md (the unknown names under memory/ among them), the batch of
\* self-conclusions exactly the collected facts whose basename is one of
\* them; and a batch call is reached only when its group is not empty.
C34_MigrationRouting ==
    [][/\ facts' # facts => install.pc \in {"owner_batch", "self_batch"}
       /\ (install.pc = "owner_batch" /\ facts' # facts) => Submits(AboutOwner)
       /\ (install.pc = "self_batch" /\ facts' # facts) => Submits(AboutSelf)
       /\ install'.pc = "owner_batch" => AboutOwner # {} /\ install.pc # "self_batch"
       /\ install'.pc = "self_batch" => AboutSelf # {}
       /\ (install'.migration = "succeeded" /\ install.migration # "succeeded") =>
              /\ install.pc \in {"owner_batch", "self_batch"} \/ install.conclusions = {}
              /\ install.pc = "owner_batch" => AboutSelf = {}]_vars

\* USER.md, TOOLS.md and a file under memory/ were collected and both
\* batches accepted
C34_Witness ==
    /\ install.migration = "succeeded"
    /\ install.conclusions = {"USER.md", "TOOLS.md", "memory"}
    /\ facts["USER.md"] = 1 /\ facts["memory"] = 1 /\ facts["TOOLS.md"] = 1
    /\ facts["SOUL.md"] = 0

\* C35: over any number of runs of an install script on one workspace, the
\* fact of each legacy file is accepted by the store at most once: a run
\* after a successful run submits nothing, and a run after a failed run does
\* not submit again the batch that was accepted.
C35_MigrationOneShot ==
    \A it \in Items : facts[it] <= 1

\* the honcho.peer calls of run r that returned: two when the run went
\* through ensureInitialized to initialized = true
PeersCreatedBy(r) ==
    Cardinality({i \in DOMAIN runs[r].calls :
                    runs[r].calls[i].op = "honcho.peer" /\ runs[r].calls[i].ok})

\* C36: however the invocations that call ensureInitialized overlap, at most
\* one of them creates the owner and agent peers; the others find the
\* result of the first and do not initialize a second time.
C36_InitializedOnce ==
    \A r1, r2 \in RunIds :
        (PeersCreatedBy(r1) = 2 /\ PeersCreatedBy(r2) = 2) => r1 = r2

\* C37: however the runs of a thread overlap, no step lowers the thread's
\* persisted watermark; in particular a run started with a shorter log does
\* not write over the larger watermark of a run that finished before it.
C37_WatermarkNeverBackwards ==
    [][\A t \in Threads :
          (Watermark(t) # Undefined) =>
              /\ Watermark(t)' # Undefined
              /\ Watermark(t)' >= Watermark(t)]_vars

\* C38: whenever a hook or a tool has used ownerPeer or moltbotPeer, the
\* plugin was initialized at that point and neither handle was null; so
\* also for honcho_recall and honcho_analyze when gateway_start's
\* initialization has failed or has not run.
C38_PeersUsedAfterInit ==
    hook.at # <<>> =>
        /\ hook.at[1]
        /\ hook.at[2] # NoPeer
        /\ hook.at[3] # NoPeer

\* C39: the store identities a run of an install script addresses are those
\* of the running plugin: the workspace the plugin's configuration defaults
\* to, the agent peer MOLTBOT_ID and the owner peer OWNER_ID; the two peers
\* of the plugin are the only peer identities, in one workspace.
C39_SameStoreIdentities ==
    /\ install.store.workspaceId \in {NoStore.workspaceId, workspaceId(Missing, Absent)}
    /\ install.store.agent \in {NoStore.agent, MOLTBOT_ID}
    /\ install.store.owner \in {NoStore.owner, OWNER_ID}

====
